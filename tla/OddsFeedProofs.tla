--------------------------- MODULE OddsFeedProofs ---------------------------
(***************************************************************************)
(* What the odds feed keeps, for any number of calls on both paths, any    *)
(* outcomes, ticks and batch size: a tick is in one place, the reports add *)
(* up, the cached latest price is the newest row's, and the round trips    *)
(* act as the single steps of Ticker.                                      *)
(*                                                                         *)
(* The invariant is in parts, of which the later rest on the first: where  *)
(* a call is and what it has in its hands (Shape); in which place a tick   *)
(* is (Placing); the keys of the rows, recorded and under way (Keys); the  *)
(* cached prices and who is about to change them (Pricing); what callers   *)
(* were told (Telling).                                                    *)
(***************************************************************************)
EXTENDS OddsFeed, FiniteSetTheorems, SequenceTheorems, WellFoundedInduction, TLAPS

-----------------------------------------------------------------------------
(* The invariant. *)

\* The places of each operation.
PlaceOf(op, label) ==
  \/ op = "record" /\ label \in {"validate", "insert", "refer", "apply", "commit"}
  \/ op = "queue" /\ label \in {"cache", "lookup", "fill", "push"}
  \/ op = "flush" /\ label \in {"pop", "insert", "refer", "apply", "commit"}
  \/ op = "close" /\ label \in {"lock", "commit"}

\* A call in the loop over its batch; one in the transaction that writes it.
Looping == {"insert", "refer", "apply"}
Writing(c) == pc[c] \in Looping \cup {"commit"} /\ req[c].op \in {"record", "flush"}

\* A tick somebody has brought, of an outcome that has a row.
KnownTick(t) == t \in Calls /\ pc[t] # "idle" /\ Row(t) \in Snapshot

Ticks(c) == {batch[c][i] : i \in DOMAIN batch[c]}

Functions ==
  /\ req \in [Calls -> Requests \cup {None}] /\ pc \in [Calls -> Labels]
  /\ inserted \in [Calls -> SUBSET Calls] /\ rolled \in [Calls -> SUBSET Calls]
  /\ batch \in [Calls -> Seq(Calls)] /\ todo \in [Calls -> SUBSET Nat]
  /\ DOMAIN held = Calls /\ DOMAIN found = Calls /\ DOMAIN reply = Calls

Statuses == {"open", "closed", "missing"}

QueueKnown == \A i \in DOMAIN queue : KnownTick(queue[i])

Tables ==
  /\ snapshots \subseteq Snapshot /\ IsFiniteSet(snapshots)
  /\ latest \in [Outcomes -> Snapshot \cup {None}] /\ settled \subseteq Outcomes
  /\ queue \in Seq(Calls) /\ QueueKnown
  /\ now \in 0 .. MaxClock

Cached ==
  /\ DOMAIN cache = OutcomeIds
  /\ \A i \in OutcomeIds : cache[i] # None =>
       /\ cache[i].status \in Statuses /\ cache[i].until \in now + 1 .. now + TTL
       /\ cache[i].status = "open" => i \in Outcomes

\* Where a call is, and what it knows of its outcome.
Where(c) ==
  /\ IF pc[c] = "idle" THEN req[c] = None
     ELSE req[c] \in Requests /\ (pc[c] = "done" \/ PlaceOf(req[c].op, pc[c]))
  /\ pc[c] # "done" => reply[c] = Report("none", 0, 0, 0)
  /\ pc[c] = "push" => req[c].outcome \in Outcomes
  /\ pc[c] = "fill" => /\ found[c] \in Statuses
                       /\ found[c] = "open" => req[c].outcome \in Outcomes

\* What it has in its hands there.
Hands(c) ==
  /\ held[c] \subseteq [row : {"outcome"} \X Outcomes, mode : Modes]
  /\ Len(batch[c]) <= BatchSize /\ \A t \in Ticks(c) : KnownTick(t)
  /\ pc[c] \in {"idle", "pop"} => batch[c] = <<>>
  /\ pc[c] # "idle" /\ req[c].op = "record" =>
       /\ Ticks(c) \subseteq {c}
       /\ Writing(c) => batch[c] = <<c>>
  /\ todo[c] \subseteq DOMAIN batch[c] /\ (todo[c] # {} <=> pc[c] \in Looping)
  /\ inserted[c] \subseteq Ticks(c) /\ rolled[c] \subseteq Ticks(c)
  /\ ~ Writing(c) => inserted[c] = {}
  /\ ~ (Writing(c) /\ pc[c] \in {"apply", "commit"}) => rolled[c] = {}

CallOK(c) == Where(c) /\ Hands(c)

Shape == Functions /\ Tables /\ Cached /\ \A c \in Calls : CallOK(c)

\* A tick in a place is one of a call that has pushed it and ended.
Sent(t) == /\ t \in Calls /\ req[t].op = "queue" /\ pc[t] = "done"
           /\ reply[t].kind \in {"accepted", "crashed"}

Placing ==
  /\ \A p \in Places : Sent(TickAt(p))
  /\ \A p, q \in Places : TickAt(p) = TickAt(q) => p = q
  /\ \A t \in Calls : reply[t].kind = "accepted" => \E p \in Places : TickAt(p) = t
  /\ accepted = Len(queue) + Cardinality(Popped)

\* The positions of its batch a transaction has inserted or passed over, and why
\* it may have passed one over: the key was there, or an earlier tick of the
\* batch had it.
Passed(c) == IF pc[c] = "insert" THEN DOMAIN batch[c] \ todo[c] ELSE DOMAIN batch[c]

Covered(c, i) ==
  \/ batch[c][i] \in inserted[c]
  \/ \E s \in snapshots : SameKey(s, Row(batch[c][i]))
  \/ \E j \in Passed(c) : /\ j < i /\ batch[c][j] \in inserted[c]
                          /\ SameKey(Row(batch[c][j]), Row(batch[c][i]))

Inserting(c) ==
  /\ \A i \in Passed(c), j \in todo[c] : pc[c] = "insert" => i < j
  /\ \A t \in inserted[c] : \E i \in Passed(c) : batch[c][i] = t
  /\ \A i \in Passed(c) : Covered(c, i)
  /\ req[c].op = "record" /\ pc[c] # "insert" => c \in inserted[c]

\* No two uncommitted rows have one key, and none has that of a recorded one.
Keys ==
  /\ \A c, d \in Calls : \A t \in inserted[c], u \in inserted[d] :
       SameKey(Row(t), Row(u)) => c = d /\ t = u
  /\ \A c \in Calls : \A t \in inserted[c], s \in snapshots : ~ SameKey(Row(t), s)
  /\ \A c \in Calls : Writing(c) => Inserting(c)

UpdateLock(o) == [row |-> <<"outcome", o>>, mode |-> "no_key_update"]

\* A call that sets latest prices: it has set an outcome's just when its newest
\* tick of the outcome is newer than what is cached, and then has its row locked.
Applied(c) == FirstOnes(batch[c]) \ todo[c]
Rolling(c) ==
  /\ todo[c] \subseteq FirstOnes(batch[c])
  /\ \A t \in rolled[c] : \E i \in Applied(c) : t = NewestLike(batch[c], i)
  /\ \A t \in rolled[c] : UpdateLock(Row(t).outcome) \in held[c]
  /\ \A i \in Applied(c) :
       NewestLike(batch[c], i) \in rolled[c] <=> RollsForward(NewestLike(batch[c], i))

Pricing ==
  /\ Exclusive(held)
  /\ \A c \in Calls : Writing(c) /\ pc[c] \in {"apply", "commit"} => Rolling(c)
  /\ LatestInStep

\* A report is of a flush and accounts for its batch, or counts nothing.
Told(c) ==
  /\ reply[c].landed \in Nat /\ reply[c].conflicts \in Nat /\ reply[c].lost \in Nat
  /\ IF reply[c].kind \in {"flushed", "skipped"}
       THEN /\ c \in Flushes
            /\ reply[c].landed + reply[c].conflicts + reply[c].lost = Len(batch[c])
       ELSE reply[c].landed = 0 /\ reply[c].conflicts = 0 /\ reply[c].lost = 0

NoneCrashed == \A c \in Calls :
  req[c] # None /\ req[c].op \in {"record", "flush"} => reply[c].kind # "crashed"
Recorded == {c \in Calls : reply[c].kind = "recorded"}

Telling ==
  /\ \A c \in Calls : Told(c)
  /\ NoneCrashed => Cardinality(snapshots) =
       Cardinality(SeedSnapshots) + Cardinality(Landed) + Cardinality(Recorded)

-----------------------------------------------------------------------------
(* Positions in a batch. *)

\* A loop always knows where it is: positions have a least.
LEMMA LeastOne ==
  ASSUME NEW S \in SUBSET Nat, S # {}
  PROVE  \E i \in S : \A j \in S : i <= j
<1>1. PICK i \in S : \A j \in S : ~ (<<j, i>> \in OpToRel(<, Nat))
  BY NatLessThanWellFounded, WFMin
<1>2. ASSUME NEW j \in S PROVE i <= j
  <2>1. <<j, i>> \in Nat \X Nat /\ ~ (<<j, i>> \in OpToRel(<, Nat))
    BY <1>1
  <2>2. ~ (j < i)
    BY <2>1 DEF OpToRel
  <2> QED
    BY <2>2
<1> QED
  BY <1>2

LEMMA CurrentOne ==
  ASSUME NEW c, todo[c] \subseteq Nat, todo[c] # {}
  PROVE  /\ Current(c) \in todo[c] /\ \A j \in todo[c] : Current(c) <= j
         /\ Left(c) \subseteq todo[c] /\ Current(c) \notin Left(c)
BY LeastOne DEF Current, Left

\* Each outcome of a batch has a first tick.
LEMMA FirstOfLike ==
  ASSUME NEW ticks \in Seq(Calls), NEW i \in DOMAIN ticks
  PROVE  \E f \in FirstOnes(ticks) : i \in Like(ticks, f) /\ Like(ticks, f) = Like(ticks, i)
<1>1. Like(ticks, i) \subseteq Nat /\ i \in Like(ticks, i)
  BY DEF Like
<1>2. PICK f \in Like(ticks, i) : \A j \in Like(ticks, i) : f <= j
  BY <1>1, LeastOne
<1>3. Like(ticks, f) = Like(ticks, i)
  BY <1>2 DEF Like
<1> QED
  BY <1>1, <1>2, <1>3 DEF FirstOnes, Like

\* And a newest one, the first of those that are as new: the one that the fewest
\* are ahead of.
LEMMA NewestOfLike ==
  ASSUME NEW ticks \in Seq(Calls), NEW i \in DOMAIN ticks,
         \A j \in DOMAIN ticks : Row(ticks[j]).at \in Nat
  PROVE  \E k \in Like(ticks, i) : /\ NewestLike(ticks, i) = ticks[k]
                                   /\ \A j \in Like(ticks, i) : AtLeastAsNew(ticks, k, j)
<1> DEFINE L == Like(ticks, i)
           at(j) == Row(ticks[j]).at
           Ahead(k) == {j \in L : ~ AtLeastAsNew(ticks, k, j)}
           Ranks == {Cardinality(Ahead(k)) : k \in L}
<1>1. /\ i \in L /\ L \subseteq 1 .. Len(ticks) /\ L \subseteq Nat
      /\ \A j \in L : at(j) \in Nat
  BY DEF Like
<1>2. IsFiniteSet(L)
  <2>1. IsFiniteSet(1 .. Len(ticks))
    BY FS_Interval
  <2> QED
    BY <1>1, <2>1, FS_Subset
<1>3. \A k \in L : IsFiniteSet(Ahead(k)) /\ Cardinality(Ahead(k)) \in Nat
  BY <1>2, FS_Subset, FS_CardinalityType
<1>4. PICK k \in L : \A j \in L : Cardinality(Ahead(k)) <= Cardinality(Ahead(j))
  <2>1. Ranks \in SUBSET Nat /\ Ranks # {}
    BY <1>1, <1>3
  <2>2. PICK r \in Ranks : \A x \in Ranks : r <= x
    BY <2>1, LeastOne
  <2> QED
    BY <2>2
<1>5. ASSUME NEW j \in L, ~ AtLeastAsNew(ticks, k, j)
      PROVE  FALSE
  <2>1. \A x, y \in L : AtLeastAsNew(ticks, x, y) <=> at(x) > at(y) \/ (at(x) = at(y) /\ x <= y)
    BY DEF AtLeastAsNew
  <2>2. ASSUME NEW x \in Ahead(j) PROVE x \in Ahead(k)
    <3> HIDE DEF L, at
    <3>1. x \in L /\ ~ AtLeastAsNew(ticks, j, x)
      OBVIOUS
    <3>2. ~ AtLeastAsNew(ticks, k, x)
      BY <1>1, <1>4, <1>5, <2>1, <3>1
    <3> QED
      BY <3>1, <3>2
  <2>3. j \in Ahead(k) /\ j \notin Ahead(j)
    <3> HIDE DEF L, at
    <3>1. AtLeastAsNew(ticks, j, j)
      BY <1>1, <2>1
    <3> QED
      BY <1>5, <3>1
  <2>4. Ahead(j) \in SUBSET Ahead(k) /\ Ahead(j) # Ahead(k)
    BY <2>2, <2>3
  <2>5. /\ Cardinality(Ahead(j)) <= Cardinality(Ahead(k))
        /\ Cardinality(Ahead(j)) # Cardinality(Ahead(k))
    <3> HIDE DEF Ahead
    <3> QED
      BY <1>3, <1>4, <2>4, FS_Subset
  <2> QED
    <3> HIDE DEF Ahead
    <3> QED
      BY <1>3, <1>4, <2>5
<1>6. \E x \in L : \A j \in L : AtLeastAsNew(ticks, x, j)
  BY <1>4, <1>5
<1> QED
  BY <1>6 DEF NewestLike

-----------------------------------------------------------------------------
(* One call goes on. *)

LEMMA RequestFields ==
  ASSUME NEW r \in Requests
  PROVE  /\ r # None /\ r.op \in {"record", "queue", "flush", "close"}
         /\ r.op \in {"record", "queue"} =>
              r.outcome \in OutcomeIds /\ r.at \in Times /\ r.price \in Prices
         /\ r.op = "close" => r.outcomes \subseteq Outcomes
<1>1. r # None /\ (r \in Tick \/ r \in Flush \/ r \in Close)
  BY FeedAssumption
<1>2. CASE r \in Tick
  BY <1>1, <1>2 DEF Tick
<1>3. CASE r \in Flush
  BY <1>1, <1>3 DEF Flush
<1>4. CASE r \in Close
  BY <1>1, <1>4 DEF Close
<1> QED
  BY <1>1, <1>2, <1>3, <1>4

LEMMA KnownFields ==
  ASSUME NEW t, KnownTick(t)
  PROVE  /\ Row(t).outcome \in Outcomes /\ Row(t).outcome \in OutcomeIds
         /\ Row(t).at \in Nat /\ Row(t) # None
         /\ Row(t) = [outcome |-> Row(t).outcome, at |-> Row(t).at, price |-> Row(t).price]
<1>1. Row(t) \in Snapshot
  BY DEF KnownTick
<1> QED
  BY <1>1, FeedAssumption DEF Snapshot

OnlyCall(c) ==
  \A d \in Calls \ {c} :
    /\ req'[d] = req[d] /\ pc'[d] = pc[d] /\ held'[d] = held[d] /\ inserted'[d] = inserted[d]
    /\ rolled'[d] = rolled[d] /\ batch'[d] = batch[d] /\ todo'[d] = todo[d]
    /\ found'[d] = found[d] /\ reply'[d] = reply[d]

\* One call goes on; what it was asked stays what it is.
Forward(c) ==
  /\ OnlyCall(c) /\ Functions' /\ pc'[c] # "idle"
  /\ pc[c] # "idle" => req'[c] = req[c]

LEMMA KnownStays ==
  ASSUME NEW c \in Calls, Forward(c), NEW t, KnownTick(t)
  PROVE  KnownTick(t)' /\ Row(t)' = Row(t)
BY DEF KnownTick, Forward, OnlyCall, Row

LEMMA OneCallStep ==
  ASSUME Shape, NEW c \in Calls, Forward(c), Tables', Cached', CallOK(c)'
  PROVE  Shape'
<1>1. ASSUME NEW d \in Calls \ {c}
      PROVE  CallOK(d)'
  <2>1. Where(d) /\ Hands(d)
    BY DEF Shape, CallOK
  <2>2. /\ req'[d] = req[d] /\ pc'[d] = pc[d] /\ held'[d] = held[d] /\ inserted'[d] = inserted[d]
        /\ rolled'[d] = rolled[d] /\ batch'[d] = batch[d] /\ todo'[d] = todo[d]
        /\ found'[d] = found[d] /\ reply'[d] = reply[d]
    BY DEF Forward, OnlyCall
  <2>3. Where(d)'
    BY <2>1, <2>2 DEF Where
  <2>4. Ticks(d)' = Ticks(d) /\ (Writing(d)' <=> Writing(d))
    BY <2>2 DEF Ticks, Writing
  <2>5. \A t \in Ticks(d) : KnownTick(t)'
    BY <2>1, KnownStays DEF Hands
  <2>6. Hands(d)'
    BY <2>1, <2>2, <2>4, <2>5 DEF Hands
  <2> QED
    BY <2>3, <2>6 DEF CallOK
<1> QED
  BY <1>1 DEF Shape, Forward

LEMMA TablesStay ==
  ASSUME Tables, NEW c \in Calls, Forward(c), UNCHANGED <<postgres, queue, now>>
  PROVE  Tables'
<1>1. snapshots' = snapshots /\ latest' = latest /\ settled' = settled /\ queue' = queue /\ now' = now
  BY DEF postgres
<1>2. QueueKnown'
  BY <1>1, KnownStays DEF Tables, QueueKnown
<1> QED
  BY <1>1, <1>2 DEF Tables

LEMMA CacheStays == Cached /\ UNCHANGED <<cache, now>> => Cached'
BY DEF Cached

\* The call has ended, and its transaction with it.
Ended(c) ==
  /\ Forward(c) /\ pc[c] \notin {"idle", "done"} /\ pc'[c] = "done"
  /\ held'[c] = {} /\ inserted'[c] = {} /\ rolled'[c] = {} /\ todo'[c] = {}

LEMMA AnswerEnds ==
  ASSUME Shape, NEW c \in Calls, pc[c] \notin {"idle", "done"}, NEW report, Answer(c, report),
         NEW b \in Seq(Calls), batch' = [batch EXCEPT ![c] = b], Len(b) <= BatchSize,
         \A i \in DOMAIN b : KnownTick(b[i]) /\ (req[c].op = "record" => b[i] = c)
  PROVE  Ended(c) /\ CallOK(c)' /\ reply'[c] = report /\ now' = now /\ req' = req
<1>1. /\ pc' = [pc EXCEPT ![c] = "done"] /\ reply' = [reply EXCEPT ![c] = report]
      /\ held' = [held EXCEPT ![c] = {}] /\ inserted' = [inserted EXCEPT ![c] = {}]
      /\ rolled' = [rolled EXCEPT ![c] = {}] /\ todo' = [todo EXCEPT ![c] = {}]
      /\ found' = [found EXCEPT ![c] = None] /\ now' = now /\ req' = req
  BY DEF Answer, Go
<1>2. Functions /\ Where(c) /\ Hands(c)
  BY DEF Shape, CallOK
<1>3. /\ pc'[c] = "done" /\ reply'[c] = report /\ held'[c] = {} /\ inserted'[c] = {}
      /\ rolled'[c] = {} /\ todo'[c] = {} /\ batch'[c] = b /\ req'[c] = req[c]
  BY <1>1, <1>2 DEF Functions
<1>4. OnlyCall(c) /\ Functions'
  BY <1>1, <1>2 DEF OnlyCall, Functions, Labels
<1>5. Ended(c)
  BY <1>3, <1>4 DEF Ended, Forward
<1>6. Where(c)'
  BY <1>2, <1>3 DEF Where
<1>7. Ticks(c)' = {b[i] : i \in DOMAIN b} /\ ~ Writing(c)'
  BY <1>3 DEF Ticks, Writing, Looping
<1>8. \A t \in Ticks(c)' : KnownTick(t)'
  BY <1>5, <1>7, KnownStays DEF Ended
<1>9. Hands(c)'
  BY <1>3, <1>7, <1>8 DEF Hands, Looping
<1> QED
  BY <1>1, <1>3, <1>5, <1>6, <1>9 DEF CallOK

LEMMA OwnTicks ==
  ASSUME Shape, NEW c \in Calls, pc[c] # "idle"
  PROVE  /\ batch[c] \in Seq(Calls) /\ Len(batch[c]) <= BatchSize
         /\ \A i \in DOMAIN batch[c] :
              /\ batch[c][i] \in Ticks(c)
              /\ KnownTick(batch[c][i]) /\ (req[c].op = "record" => batch[c][i] = c)
<1>1. Functions /\ Hands(c)
  BY DEF Shape, CallOK
<1> QED
  BY <1>1 DEF Functions, Hands, Ticks

\* An operation that ends without having changed a table.
LEMMA EndShape ==
  ASSUME Shape, NEW c \in Calls, pc[c] \notin {"idle", "done"}, NEW kind, End(c, kind),
         batch' = batch, UNCHANGED <<postgres, queue>>, Cached'
  PROVE  Shape' /\ Ended(c) /\ reply'[c] = Report(kind, 0, 0, 0)
<1>1. batch' = [batch EXCEPT ![c] = batch[c]]
  BY DEF Shape, Functions
<1>2. Ended(c) /\ CallOK(c)' /\ reply'[c] = Report(kind, 0, 0, 0) /\ now' = now
  <2>1. Answer(c, Report(kind, 0, 0, 0))
    BY DEF End
  <2> DEFINE b == batch[c]
  <2>2. /\ b \in Seq(Calls) /\ Len(b) <= BatchSize /\ batch' = [batch EXCEPT ![c] = b]
        /\ \A i \in DOMAIN b : KnownTick(b[i]) /\ (req[c].op = "record" => b[i] = c)
    BY <1>1, OwnTicks
  <2> HIDE DEF b
  <2> QED
    BY <2>1, <2>2, AnswerEnds
<1>3. Tables'
  BY <1>2, TablesStay DEF Shape, Ended
<1> QED
  BY <1>2, <1>3, OneCallStep DEF Ended

LEMMA ReturnShape ==
  ASSUME Shape, NEW c \in Calls, pc[c] \notin {"idle", "done"}, NEW kind, Return(c, kind)
  PROVE  /\ Shape' /\ Ended(c) /\ reply'[c] = Report(kind, 0, 0, 0)
         /\ batch' = batch /\ UNCHANGED <<postgres, redis>>
<1>1. End(c, kind) /\ batch' = batch /\ UNCHANGED <<postgres, redis>> /\ now' = now
  BY DEF Return, End, Answer
<1>2. Cached'
  BY <1>1, CacheStays DEF Shape, redis
<1> QED
  BY <1>1, <1>2, EndShape DEF redis

-----------------------------------------------------------------------------
(* What each call is about, step by step. *)

\* The call has come to another statement of its operation.
Moved(c, label) ==
  /\ Forward(c) /\ pc[c] \notin {"idle", "done"} /\ pc'[c] = label /\ label \notin {"idle", "done"}
  /\ reply'[c] = reply[c]

TablesSame == UNCHANGED <<postgres, queue, accepted>>

LEMMA MoveStep ==
  ASSUME Shape, NEW c \in Calls, NEW label, Moved(c, label), TablesSame, now' = now,
         Cached', CallOK(c)'
  PROVE  Shape'
<1>1. Tables'
  BY TablesStay DEF Shape, Moved, TablesSame
<1> QED
  BY <1>1, OneCallStep DEF Moved

LEMMA StartShape ==
  ASSUME Shape, NEW c \in Calls, NEW r \in Requests, Start(c, r)
  PROVE  /\ Shape' /\ Forward(c) /\ TablesSame /\ pc[c] = "idle" /\ req'[c] = r
         /\ pc'[c] \in {"validate", "cache", "pop", "lock"} /\ ~ Writing(c)'
         /\ UNCHANGED <<held, inserted, rolled, batch, todo, reply>>
<1>1. /\ pc[c] = "idle" /\ req' = [req EXCEPT ![c] = r] /\ pc' = [pc EXCEPT ![c] = FirstLabel(r)]
      /\ UNCHANGED <<held, inserted, rolled, batch, todo, found, reply>>
      /\ UNCHANGED <<postgres, redis, now>>
  BY DEF Start, Go, work
<1>2. Functions /\ Where(c) /\ Hands(c)
  BY DEF Shape, CallOK
<1>3. /\ FirstLabel(r) \in {"validate", "cache", "pop", "lock"} /\ PlaceOf(r.op, FirstLabel(r))
      /\ r # None
  BY RequestFields DEF FirstLabel, PlaceOf
<1>4. pc'[c] = FirstLabel(r) /\ req'[c] = r
  BY <1>1, <1>2 DEF Functions
<1>5. Forward(c)
  BY <1>1, <1>2, <1>3, <1>4 DEF Forward, OnlyCall, Functions, Labels
<1>6. Where(c)'
  BY <1>1, <1>2, <1>3, <1>4 DEF Where
<1>7. ~ Writing(c) /\ ~ Writing(c)' /\ Ticks(c)' = Ticks(c) /\ Ticks(c) = {}
  BY <1>1, <1>2, <1>3, <1>4 DEF Writing, Looping, Hands, Ticks
<1>8. Hands(c)'
  BY <1>1, <1>2, <1>3, <1>4, <1>7 DEF Hands, Looping
<1>9. Tables' /\ Cached'
  BY <1>1, <1>5, TablesStay, CacheStays DEF Shape, redis
<1> QED
  BY <1>1, <1>3, <1>4, <1>5, <1>6, <1>7, <1>8, <1>9, OneCallStep DEF TablesSame, redis, CallOK

LEMMA ValidateShape ==
  ASSUME Shape, NEW c \in Calls, RecordValidate(c), Status(req[c].outcome) = "open",
         ~ Return(c, "rejected")
  PROVE  /\ Shape' /\ Moved(c, "insert") /\ TablesSame /\ req[c].op = "record"
         /\ batch'[c] = <<c>> /\ todo'[c] = {1} /\ inserted'[c] = {} /\ rolled'[c] = {}
         /\ held' = held /\ ~ Writing(c)
<1>1. /\ pc[c] = "validate" /\ req[c].op = "record"
      /\ batch' = [batch EXCEPT ![c] = <<c>>] /\ todo' = [todo EXCEPT ![c] = {1}]
      /\ pc' = [pc EXCEPT ![c] = "insert"]
      /\ UNCHANGED <<postgres, redis, now, req, held, inserted, rolled, found, reply>>
  BY DEF RecordValidate, At, Go
<1>2. Functions /\ Where(c) /\ Hands(c)
  BY DEF Shape, CallOK
<1>3. <<c>> \in Seq(Calls) /\ Len(<<c>>) = 1 /\ DOMAIN <<c>> = {1} /\ <<c>>[1] = c
  OBVIOUS
<1>4. batch'[c] = <<c>> /\ todo'[c] = {1} /\ pc'[c] = "insert"
  BY <1>1, <1>2 DEF Functions
<1>5. Forward(c)
  BY <1>1, <1>2, <1>3, <1>4 DEF Forward, OnlyCall, Functions, Labels
<1>6. req[c].outcome \in Outcomes
  BY DEF Status
<1>7. req[c] \in Requests
  BY <1>1, <1>2 DEF Where
<1>8. Row(c) \in Snapshot
  BY <1>1, <1>6, <1>7, RequestFields DEF Row, Snapshot
<1>9. KnownTick(c)'
  BY <1>1, <1>4, <1>8 DEF KnownTick, Row
<1>10. Ticks(c)' = {c} /\ Writing(c)' /\ ~ Writing(c)
  BY <1>1, <1>3, <1>4 DEF Ticks, Writing, Looping
<1>11. Where(c)'
  BY <1>1, <1>2, <1>4, <1>7 DEF Where, PlaceOf
<1>12. inserted'[c] = {} /\ rolled'[c] = {}
  BY <1>1, <1>2, <1>10 DEF Hands
<1>13. Hands(c)'
  BY <1>1, <1>2, <1>3, <1>4, <1>9, <1>10, <1>12, FeedAssumption DEF Hands, Looping
<1>14. Moved(c, "insert") /\ TablesSame /\ Cached'
  BY <1>1, <1>2, <1>4, <1>5, CacheStays DEF Moved, TablesSame, redis, Functions, Shape
<1> QED
  BY <1>1, <1>4, <1>10, <1>11, <1>12, <1>13, <1>14, MoveStep DEF CallOK

\* A call that has no batch goes on.
LEMMA LightShape ==
  ASSUME Shape, NEW c \in Calls, pc[c] \notin {"idle", "done", "pop"} \cup Looping, pc[c] # "commit",
         NEW label \in Labels, label \notin {"idle", "done", "pop", "commit"} \cup Looping,
         Go(c, label), UNCHANGED <<req, inserted, rolled, batch, todo, reply>>,
         held' = held, DOMAIN found' = Calls,
         \A d \in Calls \ {c} : found'[d] = found[d],
         TablesSame, now' = now, Cached', Where(c)'
  PROVE  Shape' /\ Moved(c, label) /\ ~ Writing(c) /\ ~ Writing(c)'
<1>1. pc' = [pc EXCEPT ![c] = label]
  BY DEF Go
<1>2. Functions /\ Hands(c)
  BY DEF Shape, CallOK
<1>3. pc'[c] = label /\ held'[c] = held[c]
  BY <1>1, <1>2 DEF Functions
<1>4. Forward(c)
  BY <1>1, <1>2, <1>3 DEF Forward, OnlyCall, Functions
<1>5. ~ Writing(c) /\ ~ Writing(c)' /\ Ticks(c)' = Ticks(c)
  BY <1>3 DEF Writing, Looping, Ticks
<1>6. \A t \in Ticks(c) : KnownTick(t)'
  BY <1>2, <1>4, KnownStays DEF Hands
<1>7. Hands(c)'
  BY <1>2, <1>3, <1>5, <1>6 DEF Hands, Looping
<1> QED
  BY <1>3, <1>4, <1>5, <1>7, MoveStep DEF Moved, CallOK

LEMMA ReadCacheShape ==
  ASSUME Shape, NEW c \in Calls, QueueReadCache(c)
  PROVE  /\ Shape' /\ TablesSame /\ batch' = batch /\ UNCHANGED <<inserted, rolled, todo>>
         /\ \/ (\E label : Moved(c, label)) /\ ~ Writing(c) /\ ~ Writing(c)' /\ held' = held
            \/ Ended(c) /\ reply'[c] = Report("rejected", 0, 0, 0)
<1> DEFINE hit == cache[req[c].outcome]
<1>1. Functions /\ Where(c) /\ Cached /\ Hands(c)
  BY DEF Shape, CallOK
<1>2. pc[c] = "cache" /\ req[c].op = "queue"
  BY DEF QueueReadCache, At
<1>3. req[c] \in Requests /\ req[c].outcome \in OutcomeIds
  BY <1>1, <1>2, RequestFields DEF Where
<1>4. ASSUME NEW label, label = "lookup" \/ (label = "push" /\ hit # None /\ hit.status = "open"),
             Go(c, label), UNCHANGED <<postgres, redis, now, req, work, reply>>
      PROVE  /\ Shape' /\ TablesSame /\ batch' = batch /\ UNCHANGED <<inserted, rolled, todo>>
             /\ Moved(c, label) /\ ~ Writing(c) /\ ~ Writing(c)' /\ held' = held
  <2>1. label \in Labels /\ label \notin {"idle", "done", "pop", "commit"} \cup Looping
    BY <1>4 DEF Labels, Looping
  <2>2. pc'[c] = label
    BY <1>1, <1>4 DEF Go, Functions
  <2>3. label = "push" => req[c].outcome \in Outcomes
    BY <1>1, <1>3, <1>4 DEF Cached
  <2>4. Where(c)'
    BY <1>1, <1>2, <1>3, <1>4, <2>2, <2>3 DEF Where, PlaceOf, work
  <2>5. Cached' /\ TablesSame /\ DOMAIN found' = Calls /\ held' = held
    BY <1>1, <1>4, CacheStays DEF redis, work, TablesSame, Functions
  <2>6. pc[c] \notin {"idle", "done", "pop"} \cup Looping /\ pc[c] # "commit"
    BY <1>2 DEF Looping
  <2>7. Shape' /\ Moved(c, label) /\ ~ Writing(c) /\ ~ Writing(c)'
    BY <1>4, <2>1, <2>4, <2>5, <2>6, LightShape DEF work
  <2> QED
    BY <1>4, <2>5, <2>7 DEF work
<1>5. CASE Return(c, "rejected")
  <2>1. /\ Shape' /\ Ended(c) /\ reply'[c] = Report("rejected", 0, 0, 0)
        /\ batch' = batch /\ UNCHANGED <<postgres, redis>>
    BY <1>2, <1>5, ReturnShape
  <2>2. inserted[c] = {} /\ rolled[c] = {} /\ todo[c] = {}
    BY <1>1, <1>2 DEF Hands, Writing, Looping
  <2>3. UNCHANGED <<inserted, rolled, todo>>
    BY <1>1, <1>5, <2>2 DEF Return, End, Answer, Functions
  <2> QED
    BY <2>1, <2>3 DEF TablesSame, redis
<1> QED
  BY <1>4, <1>5 DEF QueueReadCache

LEMMA ReadStatusShape ==
  ASSUME Shape, NEW c \in Calls, QueueReadStatus(c)
  PROVE  /\ Shape' /\ TablesSame /\ Moved(c, "fill") /\ ~ Writing(c) /\ ~ Writing(c)'
         /\ UNCHANGED <<held, inserted, rolled, batch, todo>>
<1>1. Functions /\ Where(c) /\ Cached
  BY DEF Shape, CallOK
<1>2. /\ pc[c] = "lookup" /\ req[c].op = "queue" /\ Go(c, "fill")
      /\ found' = [found EXCEPT ![c] = Status(req[c].outcome)]
      /\ UNCHANGED <<postgres, redis, now, req, held, inserted, rolled, batch, todo, reply>>
  BY DEF QueueReadStatus, At
<1>3. req[c] \in Requests /\ pc'[c] = "fill" /\ found'[c] = Status(req[c].outcome)
  BY <1>1, <1>2 DEF Where, Go, Functions
<1>4. Status(req[c].outcome) \in Statuses
      /\ (Status(req[c].outcome) = "open" => req[c].outcome \in Outcomes)
  BY DEF Status, Statuses
<1>5. Where(c)'
  BY <1>1, <1>2, <1>3, <1>4 DEF Where, PlaceOf
<1>6. Cached' /\ TablesSame /\ held' = held /\ DOMAIN found' = Calls
      /\ \A d \in Calls \ {c} : found'[d] = found[d]
  BY <1>1, <1>2, CacheStays DEF redis, TablesSame, Functions
<1>7. /\ pc[c] \notin {"idle", "done", "pop"} \cup Looping /\ pc[c] # "commit"
      /\ "fill" \in Labels /\ "fill" \notin {"idle", "done", "pop", "commit"} \cup Looping
  BY <1>2 DEF Looping, Labels
<1> QED
  BY <1>2, <1>5, <1>6, <1>7, LightShape

LEMMA FillCacheShape ==
  ASSUME Shape, NEW c \in Calls, QueueFillCache(c)
  PROVE  /\ Shape' /\ TablesSame /\ batch' = batch /\ UNCHANGED <<inserted, rolled, todo>>
         /\ \/ Moved(c, "push") /\ ~ Writing(c) /\ ~ Writing(c)' /\ held' = held
            \/ Ended(c) /\ reply'[c] = Report("rejected", 0, 0, 0)
<1> DEFINE entry == [status |-> found[c], until |-> now + TTL]
<1>1. Functions /\ Where(c) /\ Hands(c) /\ Cached /\ now \in Nat
  BY DEF Shape, CallOK, Tables
<1>2. /\ pc[c] = "fill" /\ req[c].op = "queue"
      /\ cache' = [cache EXCEPT ![req[c].outcome] = entry]
      /\ UNCHANGED <<postgres, queue, accepted, batch>> /\ now' = now
  BY DEF QueueFillCache, At, End, Answer
<1>3. req[c] \in Requests /\ req[c].outcome \in OutcomeIds
  BY <1>1, <1>2, RequestFields DEF Where
<1>4. found[c] \in Statuses /\ (found[c] = "open" => req[c].outcome \in Outcomes)
  BY <1>1, <1>2 DEF Where
<1>5. /\ entry.status = found[c] /\ entry.until = now + TTL
      /\ now + TTL \in now + 1 .. now + TTL
  BY <1>1, FeedAssumption
<1>6. Cached'
  <2> HIDE DEF entry
  <2> QED
    BY <1>1, <1>2, <1>3, <1>4, <1>5 DEF Cached
<1>7. TablesSame
  BY <1>2 DEF TablesSame
<1>8. CASE found[c] = "open" /\ Go(c, "push")
           /\ UNCHANGED <<now, req, held, inserted, rolled, todo, found, reply>>
  <2>1. pc'[c] = "push"
    BY <1>1, <1>8 DEF Go, Functions
  <2>2. Where(c)'
    BY <1>1, <1>2, <1>3, <1>4, <1>8, <2>1 DEF Where, PlaceOf
  <2>3. held' = held /\ DOMAIN found' = Calls
    BY <1>1, <1>8 DEF Functions
  <2>4. /\ pc[c] \notin {"idle", "done", "pop"} \cup Looping /\ pc[c] # "commit"
        /\ "push" \in Labels /\ "push" \notin {"idle", "done", "pop", "commit"} \cup Looping
    BY <1>2 DEF Looping, Labels
  <2> QED
    BY <1>2, <1>6, <1>7, <1>8, <2>2, <2>3, <2>4, LightShape
<1>9. CASE End(c, "rejected")
  <2>1. Shape' /\ Ended(c) /\ reply'[c] = Report("rejected", 0, 0, 0)
    BY <1>2, <1>6, <1>9, EndShape
  <2>2. inserted[c] = {} /\ rolled[c] = {} /\ todo[c] = {}
    BY <1>1, <1>2 DEF Hands, Writing, Looping
  <2>3. UNCHANGED <<inserted, rolled, todo>>
    BY <1>1, <1>9, <2>2 DEF End, Answer, Functions
  <2> QED
    BY <1>2, <1>7, <2>1, <2>3
<1> QED
  BY <1>8, <1>9 DEF QueueFillCache

LEMMA PushShape ==
  ASSUME Shape, NEW c \in Calls, QueuePush(c)
  PROVE  /\ Shape' /\ Ended(c) /\ UNCHANGED <<postgres, batch>> /\ pc[c] = "push"
         /\ queue' = Append(queue, c) /\ accepted' = accepted + 1 /\ req[c].op = "queue"
         /\ \/ reply'[c] = Report("accepted", 0, 0, 0)
            \/ reply'[c] = Report("crashed", 0, 0, 0)
<1>1. Functions /\ Where(c) /\ Hands(c) /\ Cached /\ Tables
  BY DEF Shape, CallOK
<1>2. /\ pc[c] = "push" /\ req[c].op = "queue"
      /\ queue' = Append(queue, c) /\ accepted' = accepted + 1
      /\ UNCHANGED <<postgres, cache, batch>>
  BY DEF QueuePush, At
<1>3. PICK kind \in {"accepted", "crashed"} : Answer(c, Report(kind, 0, 0, 0))
  BY DEF QueuePush, End
<1>4. Ended(c) /\ CallOK(c)' /\ reply'[c] = Report(kind, 0, 0, 0) /\ now' = now
  <2> DEFINE b == batch[c]
  <2>1. /\ b \in Seq(Calls) /\ Len(b) <= BatchSize /\ batch' = [batch EXCEPT ![c] = b]
        /\ \A i \in DOMAIN b : KnownTick(b[i]) /\ (req[c].op = "record" => b[i] = c)
    BY <1>1, <1>2, OwnTicks DEF Functions
  <2> HIDE DEF b
  <2> QED
    BY <1>2, <1>3, <2>1, AnswerEnds
<1>5. req[c] \in Requests /\ req[c].outcome \in Outcomes
  BY <1>1, <1>2 DEF Where
<1>6. Row(c) \in Snapshot
  BY <1>2, <1>5, RequestFields DEF Row, Snapshot
<1>7. KnownTick(c)
  BY <1>2, <1>6 DEF KnownTick
<1>8. /\ queue' \in Seq(Calls)
      /\ \A i \in DOMAIN queue' : queue'[i] = c \/ \E j \in DOMAIN queue : queue'[i] = queue[j]
  BY <1>1, <1>2 DEF Tables
<1>9. \A t : KnownTick(t) => KnownTick(t)'
  BY <1>4, KnownStays DEF Ended
<1>10. QueueKnown'
  BY <1>1, <1>7, <1>8, <1>9 DEF Tables, QueueKnown
<1>11. Tables' /\ Cached'
  BY <1>1, <1>2, <1>4, <1>8, <1>10, CacheStays DEF Tables, postgres
<1> QED
  BY <1>2, <1>3, <1>4, <1>11, OneCallStep DEF Ended

\* What a flush pops and what it leaves.
PopSize == Min({BatchSize, Len(queue)})
Front   == SubSeq(queue, 1, PopSize)
Rest    == SubSeq(queue, PopSize + 1, Len(queue))

LEMMA PopFacts ==
  ASSUME queue \in Seq(Calls)
  PROVE  /\ PopSize \in Nat /\ PopSize <= BatchSize /\ PopSize <= Len(queue)
         /\ PopSize = 0 => queue = <<>>
         /\ Front \in Seq(Calls) /\ Len(Front) = PopSize /\ DOMAIN Front = 1 .. PopSize
         /\ \A i \in 1 .. PopSize : i \in DOMAIN queue /\ Front[i] = queue[i]
         /\ Rest \in Seq(Calls) /\ Len(Rest) = Len(queue) - PopSize
         /\ DOMAIN Rest = 1 .. Len(queue) - PopSize
         /\ \A i \in 1 .. Len(queue) - PopSize :
              PopSize + i \in DOMAIN queue /\ Rest[i] = queue[PopSize + i]
<1>1. BatchSize \in Nat \ {0} /\ Len(queue) \in Nat
  BY FeedAssumption
<1>2. /\ PopSize \in {BatchSize, Len(queue)}
      /\ PopSize <= BatchSize /\ PopSize <= Len(queue)
  <2>1. \E x \in {BatchSize, Len(queue)} : \A y \in {BatchSize, Len(queue)} : x =< y
    BY <1>1
  <2> QED
    BY <2>1 DEF PopSize, Min
<1> HIDE DEF PopSize
<1>3. PopSize \in Nat /\ (PopSize = 0 => queue = <<>>)
  BY <1>1, <1>2
<1>4. \A i \in 1 .. Len(queue) : i \in DOMAIN queue /\ queue[i] \in Calls
  OBVIOUS
<1>5. /\ Front \in Seq(Calls) /\ Len(Front) = IF 1 <= PopSize THEN PopSize - 1 + 1 ELSE 0
      /\ \A i \in 1 .. PopSize - 1 + 1 : Front[i] = queue[1 + i - 1]
  <2>1. \A i \in 1 .. PopSize : queue[i] \in Calls
    BY <1>1, <1>2, <1>3, <1>4
  <2> QED
    BY <1>3, <2>1, SubSeqProperties DEF Front
<1>6. /\ Rest \in Seq(Calls)
      /\ Len(Rest) = IF PopSize + 1 <= Len(queue) THEN Len(queue) - (PopSize + 1) + 1 ELSE 0
      /\ \A i \in 1 .. Len(queue) - (PopSize + 1) + 1 : Rest[i] = queue[(PopSize + 1) + i - 1]
  <2>1. \A i \in PopSize + 1 .. Len(queue) : queue[i] \in Calls
    BY <1>1, <1>3, <1>4
  <2>2. PopSize + 1 \in Int /\ Len(queue) \in Int
    BY <1>1, <1>3
  <2> QED
    BY <2>1, <2>2, SubSeqProperties DEF Rest
<1>7. /\ Len(Front) = PopSize /\ DOMAIN Front = 1 .. PopSize
      /\ \A i \in 1 .. PopSize : Front[i] = queue[i]
  BY <1>3, <1>5
<1>8. /\ Len(Rest) = Len(queue) - PopSize /\ DOMAIN Rest = 1 .. Len(queue) - PopSize
      /\ \A i \in 1 .. Len(queue) - PopSize : Rest[i] = queue[PopSize + i]
  <2>1. Len(Rest) = Len(queue) - PopSize
    BY <1>1, <1>2, <1>3, <1>6
  <2>2. \A i \in 1 .. Len(queue) - PopSize : (PopSize + 1) + i - 1 = PopSize + i
    BY <1>1, <1>3
  <2>3. Len(queue) - (PopSize + 1) + 1 = Len(queue) - PopSize
    BY <1>1, <1>3
  <2> QED
    BY <1>6, <2>1, <2>2, <2>3
<1>9. \A i \in 1 .. Len(queue) - PopSize : PopSize + i \in DOMAIN queue
  BY <1>1, <1>3
<1> QED
  BY <1>1, <1>2, <1>3, <1>4, <1>5, <1>6, <1>7, <1>8, <1>9

LEMMA PopShape ==
  ASSUME Shape, NEW c \in Calls, FlushPop(c)
  PROVE  /\ Shape' /\ Forward(c) /\ UNCHANGED <<postgres, accepted>>
         /\ pc[c] = "pop" /\ req[c].op = "flush" /\ batch[c] = <<>>
         /\ batch'[c] = Front /\ queue' = Rest
         /\ \/ /\ PopSize > 0 /\ Moved(c, "insert") /\ held' = held
               /\ todo'[c] = 1 .. PopSize /\ inserted'[c] = {} /\ rolled'[c] = {}
            \/ PopSize > 0 /\ Ended(c) /\ reply'[c] = Report("skipped", 0, 0, PopSize)
            \/ PopSize = 0 /\ Ended(c) /\ reply'[c] = Report("flushed", 0, 0, 0)
<1>1. Functions /\ Where(c) /\ Hands(c) /\ Cached /\ Tables
  BY DEF Shape, CallOK
<1>2. /\ pc[c] = "pop" /\ req[c].op = "flush" /\ queue' = Rest
      /\ batch' = [batch EXCEPT ![c] = Front]
      /\ UNCHANGED <<postgres, cache, accepted>>
      /\ \/ /\ PopSize > 0 /\ Go(c, "insert")
            /\ todo' = [todo EXCEPT ![c] = 1 .. PopSize]
            /\ UNCHANGED <<now, req, held, inserted, rolled, found, reply>>
         \/ PopSize > 0 /\ Answer(c, Report("skipped", 0, 0, PopSize))
         \/ PopSize = 0 /\ End(c, "flushed")
  BY DEF FlushPop, At, PopSize, Front, Rest
<1>3. /\ PopSize \in Nat /\ PopSize <= BatchSize
      /\ Front \in Seq(Calls) /\ Len(Front) = PopSize /\ DOMAIN Front = 1 .. PopSize
      /\ \A i \in DOMAIN Front : KnownTick(Front[i])
      /\ Rest \in Seq(Calls) /\ \A i \in DOMAIN Rest : KnownTick(Rest[i])
  BY <1>1, PopFacts DEF Tables, QueueKnown
<1>4. ASSUME Forward(c), now' = now
      PROVE  Tables' /\ Cached'
  <2>1. QueueKnown'
    BY <1>2, <1>3, <1>4, KnownStays DEF QueueKnown
  <2> QED
    BY <1>1, <1>2, <1>3, <1>4, <2>1, CacheStays DEF Tables, postgres
<1>5. batch[c] = <<>> /\ batch'[c] = Front
  BY <1>1, <1>2 DEF Hands, Functions
<1> HIDE DEF PopSize, Front, Rest
<1>6. CASE /\ PopSize > 0 /\ Go(c, "insert")
           /\ todo' = [todo EXCEPT ![c] = 1 .. PopSize]
           /\ UNCHANGED <<now, req, held, inserted, rolled, found, reply>>
  <2>1. pc'[c] = "insert" /\ todo'[c] = 1 .. PopSize
    BY <1>1, <1>6 DEF Go, Functions
  <2>2. Forward(c)
    BY <1>1, <1>2, <1>3, <1>6, <2>1 DEF Forward, OnlyCall, Functions, Go, Labels
  <2>3. Where(c)'
    BY <1>1, <1>2, <1>6, <2>1 DEF Where, PlaceOf
  <2>4. inserted[c] = {} /\ rolled[c] = {}
    BY <1>1, <1>2 DEF Hands, Writing, Looping
  <2>5. \A t \in Ticks(c)' : KnownTick(t)'
    BY <1>3, <1>5, <2>2, KnownStays DEF Ticks
  <2>6. 1 .. PopSize # {}
    BY <1>3, <1>6
  <2>7. Hands(c)'
    BY <1>1, <1>2, <1>3, <1>5, <1>6, <2>1, <2>4, <2>5, <2>6 DEF Hands, Writing, Looping
  <2>8. Moved(c, "insert")
    BY <1>2, <1>6, <2>1, <2>2 DEF Moved
  <2>9. Shape'
    BY <1>4, <1>6, <2>2, <2>3, <2>7, OneCallStep DEF CallOK
  <2> QED
    BY <1>2, <1>5, <1>6, <2>1, <2>2, <2>4, <2>8, <2>9
<1>7. ASSUME NEW report, Answer(c, report)
      PROVE  Ended(c) /\ Forward(c) /\ Shape' /\ reply'[c] = report
  <2>1. Ended(c) /\ CallOK(c)' /\ reply'[c] = report /\ now' = now
    BY <1>2, <1>3, <1>7, AnswerEnds
  <2> QED
    BY <1>4, <2>1, OneCallStep DEF Ended
<1>8. CASE PopSize > 0 /\ Answer(c, Report("skipped", 0, 0, PopSize))
  BY <1>2, <1>5, <1>7, <1>8
<1>9. CASE PopSize = 0 /\ End(c, "flushed")
  BY <1>2, <1>5, <1>7, <1>9 DEF End
<1> QED
  BY <1>2, <1>6, <1>8, <1>9

\* The tick a loop is at is one of the batch, the newest of its outcome's in the
\* loop over latest_per_outcome.
LEMMA ItemIsTick ==
  ASSUME Shape, NEW c \in Calls, pc[c] \in Looping
  PROVE  /\ Current(c) \in todo[c] /\ Current(c) \in DOMAIN batch[c]
         /\ \A j \in todo[c] : Current(c) <= j
         /\ Left(c) \subseteq todo[c] /\ Current(c) \notin Left(c)
         /\ pc[c] = "apply" => Item(c) = NewestLike(batch[c], Current(c))
         /\ pc[c] # "apply" => Item(c) = batch[c][Current(c)]
         /\ Item(c) \in Ticks(c) /\ Item(c) \in Calls /\ KnownTick(Item(c))
         /\ req[c].op = "record" => Item(c) = c
<1>1. Functions /\ Hands(c) /\ Where(c)
  BY DEF Shape, CallOK
<1>2. todo[c] \subseteq Nat /\ todo[c] # {} /\ todo[c] \subseteq DOMAIN batch[c] /\ pc[c] # "idle"
  BY <1>1 DEF Functions, Hands, Looping
<1>3. /\ Current(c) \in todo[c] /\ \A j \in todo[c] : Current(c) <= j
      /\ Left(c) \subseteq todo[c] /\ Current(c) \notin Left(c)
  BY <1>2, CurrentOne
<1>4. Current(c) \in DOMAIN batch[c]
  BY <1>2, <1>3
<1>5. /\ batch[c] \in Seq(Calls)
      /\ \A i \in DOMAIN batch[c] : /\ batch[c][i] \in Ticks(c) /\ KnownTick(batch[c][i])
                                    /\ req[c].op = "record" => batch[c][i] = c
  BY <1>2, OwnTicks
<1>6. \A j \in DOMAIN batch[c] : Row(batch[c][j]).at \in Nat
  BY <1>5, KnownFields
<1>7. \E k \in DOMAIN batch[c] : NewestLike(batch[c], Current(c)) = batch[c][k]
  BY <1>4, <1>5, <1>6, NewestOfLike DEF Like
<1>8. \E k \in DOMAIN batch[c] : Item(c) = batch[c][k]
  BY <1>4, <1>7 DEF Item
<1> QED
  BY <1>3, <1>4, <1>5, <1>8 DEF Item, KnownTick

\* A transaction goes on with its batch.
LEMMA WritingMoves ==
  ASSUME Shape, NEW c \in Calls, Writing(c), NEW label \in Looping \cup {"commit"},
         Forward(c), pc'[c] = label, reply'[c] = reply[c], batch' = batch,
         TablesSame, now' = now, cache' = cache,
         held'[c] \subseteq [row : {"outcome"} \X Outcomes, mode : Modes],
         todo'[c] \subseteq DOMAIN batch[c], todo'[c] # {} <=> label \in Looping,
         inserted'[c] \subseteq Ticks(c), rolled'[c] \subseteq Ticks(c),
         label \in {"insert", "refer"} => rolled'[c] = {}
  PROVE  Shape' /\ Moved(c, label) /\ Writing(c)'
<1>1. Functions /\ Hands(c) /\ Where(c) /\ pc[c] \notin {"idle", "done", "push", "fill", "pop"}
  BY DEF Shape, CallOK, Writing, Looping
<1>2. req'[c] = req[c] /\ batch'[c] = batch[c] /\ Ticks(c)' = Ticks(c)
  BY <1>1 DEF Forward, Ticks
<1>3. Writing(c)'
  BY <1>2 DEF Writing
<1>4. Moved(c, label)
  BY <1>1 DEF Moved, Looping
<1>5. Where(c)'
  BY <1>1, <1>2 DEF Where, PlaceOf, Writing, Looping
<1>6. \A t \in Ticks(c) : KnownTick(t)'
  BY <1>1, KnownStays DEF Hands
<1>7. Hands(c)'
  BY <1>1, <1>2, <1>3, <1>6 DEF Hands, Looping
<1>8. Cached'
  BY CacheStays DEF Shape
<1> QED
  BY <1>3, <1>4, <1>5, <1>7, <1>8, MoveStep DEF CallOK

\* What the next loop of a transaction begins with.
LEMMA OnwardMoves ==
  ASSUME Shape, NEW c \in Calls, pc[c] \in Looping, NEW rows \in SUBSET DOMAIN batch[c], Onward(c, rows)
  PROVE  \/ /\ rows # {} /\ pc' = [pc EXCEPT ![c] = "refer"] /\ todo' = [todo EXCEPT ![c] = rows]
            /\ pc'[c] = "refer" /\ todo'[c] = rows
         \/ /\ rows = {} /\ pc' = [pc EXCEPT ![c] = "apply"]
            /\ todo' = [todo EXCEPT ![c] = FirstOnes(batch[c])]
            /\ pc'[c] = "apply" /\ todo'[c] = FirstOnes(batch[c])
            /\ FirstOnes(batch[c]) \in SUBSET DOMAIN batch[c] /\ FirstOnes(batch[c]) # {}
<1>1. Functions /\ batch[c] \in Seq(Calls) /\ Current(c) \in DOMAIN batch[c]
  BY ItemIsTick DEF Shape, Functions
<1>2. FirstOnes(batch[c]) \subseteq DOMAIN batch[c]
  BY DEF FirstOnes
<1>3. FirstOnes(batch[c]) # {}
  BY <1>1, FirstOfLike
<1> QED
  BY <1>1, <1>2, <1>3 DEF Onward, Go, Functions

Taken(c, t) == \/ \E s \in snapshots : SameKey(s, Row(t))
               \/ \E u \in inserted[c] : SameKey(Row(u), Row(t))

\* A row goes in or is passed over, and no other transaction has its key in
\* flight then.
RowStep(c) ==
  /\ pc[c] = "insert" /\ SameKeyInFlight(c) = {}
  /\ UNCHANGED <<held, rolled, batch>>
  /\ ~ (Taken(c, Item(c)) /\ req[c].op = "record")
  /\ inserted'[c] = IF Taken(c, Item(c)) THEN inserted[c] ELSE inserted[c] \cup {Item(c)}
  /\ \/ Left(c) # {} /\ Moved(c, "insert") /\ todo'[c] = Left(c)
     \/ Left(c) = {} /\ Moved(c, "refer")
     \/ Left(c) = {} /\ Moved(c, "apply") /\ todo'[c] = FirstOnes(batch[c])

LEMMA InsertShape ==
  ASSUME Shape, NEW c \in Calls, InsertRow(c)
  PROVE  /\ Shape' /\ Writing(c) /\ batch' = batch /\ TablesSame
         /\ \/ RowStep(c) /\ Writing(c)'
            \/ Ended(c) /\ reply'[c] = Report("failed", 0, 0, 0)
<1> DEFINE t == Item(c)
           ins == IF Taken(c, t) THEN inserted[c] ELSE inserted[c] \cup {t}
           kept == {i \in DOMAIN batch[c] : batch[c][i] \in ins}
<1>1. Functions /\ Hands(c) /\ Where(c)
  BY DEF Shape, CallOK
<1>2. pc[c] = "insert" /\ SameKeyInFlight(c) = {}
  BY DEF InsertRow
<1>3. Writing(c) /\ pc[c] \in Looping
  BY <1>1, <1>2 DEF Writing, Looping, Where, PlaceOf
<1>4. t \in Ticks(c) /\ t \in Calls /\ Left(c) \subseteq DOMAIN batch[c] /\ rolled[c] = {}
      /\ inserted[c] \subseteq Ticks(c) /\ todo[c] \subseteq Nat
  BY <1>1, <1>2, <1>3, ItemIsTick DEF Hands, Functions
<1>5. ins \subseteq Ticks(c) /\ ins \in SUBSET Calls
  BY <1>1, <1>4 DEF Functions
<1>6. CASE Return(c, "failed")
  BY <1>2, <1>3, <1>6, ReturnShape DEF TablesSame, redis
<1>7. CASE /\ ~ (Taken(c, t) /\ req[c].op = "record")
           /\ inserted' = [inserted EXCEPT ![c] = ins]
           /\ IF Left(c) # {}
                THEN todo' = [todo EXCEPT ![c] = Left(c)] /\ UNCHANGED pc
                ELSE Onward(c, kept)
           /\ UNCHANGED <<postgres, redis, now, req, held, rolled, batch, found, reply>>
  <2> HIDE DEF ins
  <2>1. inserted'[c] = ins /\ TablesSame /\ cache' = cache
    BY <1>1, <1>7 DEF Functions, TablesSame, redis
  <2>5. /\ UNCHANGED <<held, rolled, batch>> /\ ~ (Taken(c, Item(c)) /\ req[c].op = "record")
        /\ inserted'[c] = IF Taken(c, Item(c)) THEN inserted[c] ELSE inserted[c] \cup {Item(c)}
    BY <1>7, <2>1 DEF ins
  <2>2. ASSUME NEW label \in Looping, NEW rows \in SUBSET DOMAIN batch[c], rows # {},
               pc' = [pc EXCEPT ![c] = label], todo' = [todo EXCEPT ![c] = rows]
        PROVE  Shape' /\ Moved(c, label) /\ Writing(c)' /\ todo'[c] = rows
    <3>1. pc'[c] = label /\ todo'[c] = rows
      BY <1>1, <2>2 DEF Functions
    <3>2. rows \subseteq Nat
      BY <1>1 DEF Functions
    <3>3. Forward(c)
      BY <1>1, <1>2, <1>5, <1>7, <2>2, <3>1, <3>2 DEF Forward, OnlyCall, Functions, Looping, Labels
    <3> QED
      BY <1>1, <1>3, <1>4, <1>5, <1>7, <2>1, <2>2, <3>1, <3>3, WritingMoves DEF Hands, Looping
  <2>3. CASE Left(c) # {}
    <3>1. pc' = [pc EXCEPT ![c] = "insert"] /\ todo' = [todo EXCEPT ![c] = Left(c)]
      BY <1>1, <1>2, <1>7, <2>3 DEF Functions
    <3>2. "insert" \in Looping /\ Left(c) \in SUBSET DOMAIN batch[c]
      BY <1>4 DEF Looping
    <3>3. Shape' /\ Moved(c, "insert") /\ Writing(c)' /\ todo'[c] = Left(c)
      BY <2>2, <2>3, <3>1, <3>2
    <3> QED
      BY <1>2, <1>3, <2>1, <2>3, <2>5, <3>3 DEF RowStep
  <2>4. CASE Left(c) = {}
    <3>1. kept \in SUBSET DOMAIN batch[c] /\ Onward(c, kept)
      BY <1>7, <2>4
    <3> HIDE DEF kept
    <3>2. CASE /\ kept # {} /\ pc' = [pc EXCEPT ![c] = "refer"]
               /\ todo' = [todo EXCEPT ![c] = kept]
      <4>1. "refer" \in Looping
        BY DEF Looping
      <4>2. Shape' /\ Moved(c, "refer") /\ Writing(c)'
        BY <2>2, <3>1, <3>2, <4>1
      <4>3. RowStep(c)
        BY <1>2, <2>4, <2>5, <4>2 DEF RowStep
      <4> QED
        BY <1>3, <2>1, <2>5, <4>2, <4>3
    <3>3. CASE /\ pc' = [pc EXCEPT ![c] = "apply"]
               /\ todo' = [todo EXCEPT ![c] = FirstOnes(batch[c])]
               /\ FirstOnes(batch[c]) \in SUBSET DOMAIN batch[c] /\ FirstOnes(batch[c]) # {}
      <4>1. "apply" \in Looping
        BY DEF Looping
      <4>2. Shape' /\ Moved(c, "apply") /\ Writing(c)' /\ todo'[c] = FirstOnes(batch[c])
        BY <2>2, <3>3, <4>1
      <4>3. RowStep(c)
        BY <1>2, <2>4, <2>5, <4>2 DEF RowStep
      <4> QED
        BY <1>3, <2>1, <2>5, <4>2, <4>3
    <3> QED
      BY <1>3, <3>1, <3>2, <3>3, OnwardMoves
  <2> QED
    BY <2>3, <2>4
<1>8. \/ Return(c, "failed")
      \/ /\ ~ (Taken(c, t) /\ req[c].op = "record")
         /\ inserted' = [inserted EXCEPT ![c] = ins]
         /\ IF Left(c) # {}
              THEN todo' = [todo EXCEPT ![c] = Left(c)] /\ UNCHANGED pc
              ELSE Onward(c, kept)
         /\ UNCHANGED <<postgres, redis, now, req, held, rolled, batch, found, reply>>
  BY DEF InsertRow, Taken
<1> QED
  BY <1>6, <1>7, <1>8

LEMMA ReferShape ==
  ASSUME Shape, NEW c \in Calls, ReferRow(c)
  PROVE  /\ Shape' /\ Writing(c) /\ Writing(c)' /\ TablesSame /\ pc[c] = "refer" /\ Granted(c)
         /\ UNCHANGED <<inserted, rolled, batch>>
         /\ held' = [held EXCEPT ![c] = @ \cup Wanted(c)]
         /\ Moved(c, "refer") \/ (Moved(c, "apply") /\ todo'[c] = FirstOnes(batch[c]))
<1>1. Functions /\ Hands(c) /\ Where(c)
  BY DEF Shape, CallOK
<1>2. /\ pc[c] = "refer" /\ Granted(c) /\ Onward(c, Left(c))
      /\ held' = [held EXCEPT ![c] = @ \cup Wanted(c)]
      /\ UNCHANGED <<postgres, redis, now, req, inserted, rolled, batch, found, reply>>
  BY DEF ReferRow, Take
<1>3. Writing(c) /\ pc[c] \in Looping
  BY <1>1, <1>2 DEF Writing, Looping, Where, PlaceOf
<1>4. /\ Left(c) \in SUBSET DOMAIN batch[c] /\ Row(Item(c)).outcome \in Outcomes
      /\ rolled[c] = {}
  BY <1>1, <1>2, <1>3, ItemIsTick, KnownFields DEF Hands
<1>5. Wanted(c) \subseteq [row : {"outcome"} \X Outcomes, mode : Modes]
  <2>1. Wanted(c) = KeyShare("outcome", {Row(Item(c)).outcome})
    BY <1>2 DEF Wanted
  <2> QED
    BY <1>4, <2>1 DEF KeyShare, Modes
<1>6. held'[c] = held[c] \cup Wanted(c)
  BY <1>1, <1>2 DEF Functions
<1>7. TablesSame /\ cache' = cache
  BY <1>2 DEF TablesSame, redis
<1>8. ASSUME NEW label \in Looping, NEW rows \in SUBSET DOMAIN batch[c], rows # {},
             pc' = [pc EXCEPT ![c] = label], todo' = [todo EXCEPT ![c] = rows]
      PROVE  Shape' /\ Moved(c, label) /\ Writing(c)' /\ todo'[c] = rows
  <2>1. pc'[c] = label /\ todo'[c] = rows /\ rows \subseteq Nat
    BY <1>1, <1>8 DEF Functions
  <2>2. Forward(c)
    BY <1>1, <1>2, <1>8, <2>1 DEF Forward, OnlyCall, Functions, Looping, Labels
  <2> QED
    BY <1>1, <1>2, <1>3, <1>4, <1>5, <1>6, <1>7, <1>8, <2>1, <2>2, WritingMoves DEF Hands, Looping
<1>9. "refer" \in Looping /\ "apply" \in Looping
  BY DEF Looping
<1>10. CASE /\ Left(c) # {} /\ pc' = [pc EXCEPT ![c] = "refer"]
            /\ todo' = [todo EXCEPT ![c] = Left(c)]
  BY <1>2, <1>3, <1>4, <1>7, <1>8, <1>9, <1>10
<1>11. CASE /\ pc' = [pc EXCEPT ![c] = "apply"]
            /\ todo' = [todo EXCEPT ![c] = FirstOnes(batch[c])]
            /\ FirstOnes(batch[c]) \in SUBSET DOMAIN batch[c] /\ FirstOnes(batch[c]) # {}
  BY <1>2, <1>3, <1>7, <1>8, <1>9, <1>11
<1> QED
  BY <1>2, <1>3, <1>4, <1>10, <1>11, OnwardMoves

LEMMA ApplyShape ==
  ASSUME Shape, NEW c \in Calls, ApplyLatest(c)
  PROVE  /\ Shape' /\ Writing(c) /\ Writing(c)' /\ TablesSame /\ pc[c] = "apply" /\ Granted(c)
         /\ UNCHANGED <<inserted, batch>>
         /\ held' = [held EXCEPT ![c] = @ \cup Wanted(c)]
         /\ rolled'[c] = IF RollsForward(Item(c)) THEN rolled[c] \cup {Item(c)} ELSE rolled[c]
         /\ todo'[c] = Left(c) /\ (Moved(c, "apply") \/ Moved(c, "commit"))
<1> DEFINE t == Item(c)
           more == IF RollsForward(t) THEN rolled[c] \cup {t} ELSE rolled[c]
           label == IF Left(c) # {} THEN "apply" ELSE "commit"
<1>1. Functions /\ Hands(c) /\ Where(c)
  BY DEF Shape, CallOK
<1>2. /\ pc[c] = "apply" /\ Granted(c) /\ todo' = [todo EXCEPT ![c] = Left(c)]
      /\ held' = [held EXCEPT ![c] = @ \cup Wanted(c)]
      /\ rolled' = IF RollsForward(t) THEN [rolled EXCEPT ![c] = @ \cup {t}] ELSE rolled
      /\ IF Left(c) # {} THEN UNCHANGED pc ELSE Go(c, "commit")
      /\ UNCHANGED <<postgres, redis, now, req, inserted, batch, found, reply>>
  BY DEF ApplyLatest, Take
<1>3. Writing(c) /\ pc[c] \in Looping
  BY <1>1, <1>2 DEF Writing, Looping, Where, PlaceOf
<1>4. /\ Left(c) \subseteq DOMAIN batch[c] /\ Left(c) \subseteq Nat /\ Row(t).outcome \in Outcomes
      /\ t \in Ticks(c) /\ t \in Calls
  BY <1>1, <1>3, ItemIsTick, KnownFields DEF Hands, Functions
<1>5. Wanted(c) \subseteq [row : {"outcome"} \X Outcomes, mode : Modes]
  <2>1. Wanted(c) \subseteq NoKeyUpdate("outcome", {Row(t).outcome})
    BY <1>2 DEF Wanted
  <2> QED
    BY <1>4, <2>1 DEF NoKeyUpdate, Modes
<1>6. held'[c] = held[c] \cup Wanted(c) /\ todo'[c] = Left(c)
  BY <1>1, <1>2 DEF Functions
<1>7. TablesSame /\ cache' = cache
  BY <1>2 DEF TablesSame, redis
<1>8. rolled'[c] = more /\ rolled' = [rolled EXCEPT ![c] = more]
  BY <1>1, <1>2 DEF Functions
<1>9. pc' = [pc EXCEPT ![c] = label] /\ pc'[c] = label
  BY <1>1, <1>2 DEF Go, Functions
<1>10. more \subseteq Ticks(c) /\ more \in SUBSET Calls
  BY <1>1, <1>4 DEF Hands, Functions
<1>11. /\ label \in Looping \cup {"commit"} /\ label \in Labels /\ label # "idle"
       /\ label \notin {"insert", "refer"} /\ (Left(c) # {} <=> label \in Looping)
  BY DEF Looping, Labels
<1> HIDE DEF t, more, label
<1>12. Forward(c)
  BY <1>1, <1>2, <1>4, <1>8, <1>9, <1>10, <1>11 DEF Forward, OnlyCall, Functions
<1>13. held'[c] \subseteq [row : {"outcome"} \X Outcomes, mode : Modes]
  BY <1>1, <1>5, <1>6 DEF Hands
<1>14. Shape' /\ Moved(c, label) /\ Writing(c)'
  BY <1>1, <1>2, <1>3, <1>4, <1>6, <1>7, <1>8, <1>9, <1>10, <1>11, <1>12, <1>13, WritingMoves DEF Hands
<1>15. Moved(c, "apply") \/ Moved(c, "commit")
  BY <1>14 DEF label
<1>16. rolled'[c] = IF RollsForward(Item(c)) THEN rolled[c] \cup {Item(c)} ELSE rolled[c]
  BY <1>8 DEF more, t
<1> QED
  BY <1>2, <1>3, <1>6, <1>7, <1>14, <1>15, <1>16

RowsOf(T) == {Row(t) : t \in T}

LEMMA RowsAreFinite ==
  ASSUME NEW T, IsFiniteSet(T)
  PROVE  IsFiniteSet(RowsOf(T)) /\ Cardinality(RowsOf(T)) <= Cardinality(T)
<1> DEFINE f == [t \in T |-> Row(t)]
<1>1. f \in Surjection(T, RowsOf(T))
  BY DEF Surjection, RowsOf
<1> QED
  BY <1>1, FS_Surjection

LEMMA CommitShape ==
  ASSUME Shape, NEW c \in Calls, CommitTicks(c)
  PROVE  /\ Shape' /\ Ended(c) /\ Writing(c) /\ pc[c] = "commit" /\ batch' = batch
         /\ UNCHANGED redis
         /\ snapshots' = snapshots \cup RowsOf(inserted[c])
         /\ latest' = [o \in Outcomes |->
              IF \E t \in rolled[c] : Row(t).outcome = o
                THEN Row(CHOOSE t \in rolled[c] : Row(t).outcome = o) ELSE latest[o]]
         /\ \/ reply'[c] = Report("crashed", 0, 0, 0)
            \/ req[c].op = "record" /\ reply'[c] = Report("recorded", 0, 0, 0)
            \/ /\ req[c].op = "flush"
               /\ reply'[c] = Report("flushed", Cardinality(inserted[c]),
                                     Len(batch[c]) - Cardinality(inserted[c]), 0)
<1> DEFINE landed == Cardinality(inserted[c])
           told == IF req[c].op = "record" THEN Report("recorded", 0, 0, 0)
                   ELSE Report("flushed", landed, Len(batch[c]) - landed, 0)
<1>1. Functions /\ Hands(c) /\ Where(c) /\ Tables /\ Cached
  BY DEF Shape, CallOK
<1>2. /\ pc[c] = "commit" /\ req[c].op \in {"record", "flush"}
      /\ snapshots' = snapshots \cup RowsOf(inserted[c])
      /\ latest' = [o \in Outcomes |->
           IF \E t \in rolled[c] : Row(t).outcome = o
             THEN Row(CHOOSE t \in rolled[c] : Row(t).outcome = o) ELSE latest[o]]
      /\ UNCHANGED <<settled, redis, batch>>
      /\ Answer(c, told) \/ Answer(c, Report("crashed", 0, 0, 0))
  BY DEF CommitTicks, RowsOf, End
<1>3. Writing(c) /\ pc[c] \notin {"idle", "done"}
  BY <1>2 DEF Writing
<1>4. ASSUME NEW report, Answer(c, report)
      PROVE  Ended(c) /\ CallOK(c)' /\ reply'[c] = report /\ now' = now
  <2> DEFINE b == batch[c]
  <2>1. /\ b \in Seq(Calls) /\ Len(b) <= BatchSize /\ batch' = [batch EXCEPT ![c] = b]
        /\ \A i \in DOMAIN b : KnownTick(b[i]) /\ (req[c].op = "record" => b[i] = c)
    BY <1>1, <1>2, OwnTicks DEF Functions
  <2> HIDE DEF b
  <2> QED
    BY <1>3, <1>4, <2>1, AnswerEnds
<1>5. \A t \in Ticks(c) : Row(t) \in Snapshot
  BY <1>1 DEF Hands, KnownTick
<1>6. IsFiniteSet(inserted[c])
  <2>1. inserted[c] \in SUBSET Calls /\ IsFiniteSet(Calls)
    BY <1>1, FeedAssumption DEF Functions
  <2> QED
    BY <2>1, FS_Subset
<1>7. snapshots' \subseteq Snapshot /\ IsFiniteSet(snapshots')
  <2>1. RowsOf(inserted[c]) \subseteq Snapshot
    BY <1>1, <1>5 DEF RowsOf, Hands
  <2>2. IsFiniteSet(RowsOf(inserted[c]))
    BY <1>6, RowsAreFinite
  <2> QED
    BY <1>1, <1>2, <2>1, <2>2, FS_Union DEF Tables
<1>8. latest' \in [Outcomes -> Snapshot \cup {None}]
  <2>1. ASSUME NEW o \in Outcomes, \E t \in rolled[c] : Row(t).outcome = o
        PROVE  Row(CHOOSE t \in rolled[c] : Row(t).outcome = o) \in Snapshot
    BY <1>1, <1>5, <2>1 DEF Hands
  <2> QED
    BY <1>1, <1>2, <2>1 DEF Tables
<1>9. Ended(c) /\ CallOK(c)' /\ now' = now
      /\ (reply'[c] = told \/ reply'[c] = Report("crashed", 0, 0, 0))
  <2> HIDE DEF told
  <2> QED
    BY <1>2, <1>4
<1>10. QueueKnown'
  BY <1>1, <1>2, <1>9, KnownStays DEF QueueKnown, Tables, redis, Ended
<1>11. Tables' /\ Cached'
  BY <1>1, <1>2, <1>7, <1>8, <1>9, <1>10, CacheStays DEF Tables, redis
<1>12. Shape'
  BY <1>9, <1>11, OneCallStep DEF Ended
<1>13. \/ reply'[c] = Report("crashed", 0, 0, 0)
       \/ req[c].op = "record" /\ reply'[c] = Report("recorded", 0, 0, 0)
       \/ /\ req[c].op = "flush"
          /\ reply'[c] = Report("flushed", Cardinality(inserted[c]),
                                Len(batch[c]) - Cardinality(inserted[c]), 0)
  BY <1>2, <1>9
<1> QED
  BY <1>2, <1>3, <1>9, <1>12, <1>13

LEMMA CloseLockShape ==
  ASSUME Shape, NEW c \in Calls, CloseLock(c)
  PROVE  /\ Shape' /\ TablesSame /\ ~ Writing(c) /\ ~ Writing(c)' /\ Granted(c)
         /\ \E label : Moved(c, label)
         /\ held' = [held EXCEPT ![c] = @ \cup Wanted(c)]
         /\ UNCHANGED <<inserted, rolled, batch, todo>>
<1> DEFINE label == IF Unlocked(c) \subseteq First(Unlocked(c)) THEN "commit" ELSE "lock"
<1>1. Functions /\ Hands(c) /\ Where(c)
  BY DEF Shape, CallOK
<1>2. /\ pc[c] = "lock" /\ req[c].op = "close" /\ Granted(c)
      /\ held' = [held EXCEPT ![c] = @ \cup Wanted(c)]
      /\ IF Unlocked(c) \subseteq First(Unlocked(c)) THEN Go(c, "commit") ELSE UNCHANGED pc
      /\ UNCHANGED <<postgres, redis, now, req, inserted, rolled, batch, todo, found, reply>>
  BY DEF CloseLock, At, Take
<1>3. pc' = [pc EXCEPT ![c] = label] /\ pc'[c] = label
  BY <1>1, <1>2 DEF Go, Functions
<1>4. held'[c] = held[c] \cup Wanted(c)
  BY <1>1, <1>2 DEF Functions
<1>5. Wanted(c) \subseteq [row : {"outcome"} \X Outcomes, mode : Modes]
  <2>1. Wanted(c) = ForUpdate("outcome", First(Unlocked(c)))
    BY <1>2 DEF Wanted
  <2>2. req[c] \in Requests
    BY <1>1, <1>2 DEF Where
  <2>3. First(Unlocked(c)) \subseteq Outcomes
    BY <1>2, <2>2, RequestFields DEF First, Unlocked
  <2> QED
    BY <2>1, <2>3 DEF ForUpdate, Modes
<1>6. label \in {"lock", "commit"} /\ label \in Labels
  BY DEF Labels
<1> HIDE DEF label
<1>7. Forward(c)
  BY <1>1, <1>2, <1>3, <1>6 DEF Forward, OnlyCall, Functions
<1>8. Where(c)'
  BY <1>1, <1>2, <1>3, <1>6 DEF Where, PlaceOf
<1>9. ~ Writing(c) /\ ~ Writing(c)' /\ Ticks(c)' = Ticks(c)
  BY <1>2, <1>3, <1>6 DEF Writing, Ticks
<1>10. \A t \in Ticks(c) : KnownTick(t)'
  BY <1>1, <1>7, KnownStays DEF Hands
<1>11. Hands(c)'
  BY <1>1, <1>2, <1>3, <1>4, <1>5, <1>6, <1>9, <1>10 DEF Hands, Looping
<1>12. Moved(c, label) /\ TablesSame /\ Cached' /\ now' = now
  BY <1>1, <1>2, <1>3, <1>6, <1>7, CacheStays DEF Moved, TablesSame, redis, Shape
<1> QED
  BY <1>2, <1>8, <1>9, <1>11, <1>12, MoveStep DEF CallOK

LEMMA CloseCommitShape ==
  ASSUME Shape, NEW c \in Calls, CloseCommit(c)
  PROVE  /\ Shape' /\ Ended(c) /\ batch' = batch /\ UNCHANGED <<snapshots, latest, redis>>
         /\ reply'[c] = Report("closed", 0, 0, 0)
<1>1. Functions /\ Hands(c) /\ Where(c) /\ Tables /\ Cached
  BY DEF Shape, CallOK
<1>2. /\ pc[c] = "commit" /\ req[c].op = "close" /\ Answer(c, Report("closed", 0, 0, 0))
      /\ settled' = IF req[c].settles THEN settled \cup req[c].outcomes ELSE settled
      /\ UNCHANGED <<snapshots, latest, redis, batch>>
  BY DEF CloseCommit, At, End
<1>3. Ended(c) /\ CallOK(c)' /\ reply'[c] = Report("closed", 0, 0, 0) /\ now' = now
  <2> DEFINE b == batch[c]
  <2>1. /\ b \in Seq(Calls) /\ Len(b) <= BatchSize /\ batch' = [batch EXCEPT ![c] = b]
        /\ \A i \in DOMAIN b : KnownTick(b[i]) /\ (req[c].op = "record" => b[i] = c)
    BY <1>1, <1>2, OwnTicks DEF Functions
  <2> HIDE DEF b
  <2> QED
    BY <1>2, <2>1, AnswerEnds
<1>4. settled' \subseteq Outcomes
  BY <1>1, <1>2, RequestFields DEF Tables, Where
<1>5. QueueKnown'
  BY <1>1, <1>2, <1>3, KnownStays DEF QueueKnown, Tables, redis, Ended
<1>6. Tables' /\ Cached'
  BY <1>1, <1>2, <1>3, <1>4, <1>5, CacheStays DEF Tables, redis
<1> QED
  BY <1>2, <1>3, <1>6, OneCallStep DEF Ended

\* Only who waits can be on a cycle.
LEMMA VictimWaits ==
  ASSUME NEW c \in Calls, OnCycle(c, WaitsFor)
  PROVE  pc[c] \in Looping \cup {"lock"}
<1>1. DOMAIN WaitsFor = Calls
      /\ WaitsFor[c] = Holders(held, c, Wanted(c))
                         \cup (IF pc[c] = "insert" THEN SameKeyInFlight(c) ELSE {})
  BY DEF WaitsFor
<1>2. WaitsFor[c] # {}
  <2>1. {} \in SUBSET DOMAIN WaitsFor
    OBVIOUS
  <2> QED
    BY <2>1 DEF OnCycle
<1>3. ASSUME pc[c] \notin Looping \cup {"lock"} PROVE FALSE
  <2>1. Wanted(c) = {}
    BY <1>3 DEF Wanted, Looping
  <2> QED
    BY <1>1, <1>2, <1>3, <2>1 DEF Holders, Looping
<1> QED
  BY <1>3

\* Rolled back, and begun again from the start.
Restarted(c) ==
  /\ Moved(c, FirstLabel(req[c])) /\ req[c].op # "flush" /\ ~ Writing(c)'
  /\ held'[c] = {} /\ inserted'[c] = {} /\ rolled'[c] = {} /\ todo'[c] = {}
  /\ batch' = batch

LEMMA DeadlockShape ==
  ASSUME Shape, NEW c \in Calls, Deadlocked(c)
  PROVE  /\ Shape' /\ TablesSame /\ batch' = batch
         /\ Restarted(c) \/ (Ended(c) /\ reply'[c] = Report("failed", 0, 0, 0))
<1>1. Functions /\ Hands(c) /\ Where(c)
  BY DEF Shape, CallOK
<1>2. pc[c] \in Looping \cup {"lock"} /\ pc[c] \notin {"idle", "done"}
  BY VictimWaits DEF Deadlocked, Looping
<1>3. CASE Return(c, "failed")
  BY <1>2, <1>3, ReturnShape DEF TablesSame, redis
<1>4. CASE /\ req[c].op # "flush"
           /\ Go(c, FirstLabel(req[c]))
           /\ held' = [held EXCEPT ![c] = {}] /\ inserted' = [inserted EXCEPT ![c] = {}]
           /\ rolled' = [rolled EXCEPT ![c] = {}] /\ todo' = [todo EXCEPT ![c] = {}]
           /\ UNCHANGED <<postgres, redis, now, req, batch, found, reply>>
  <2> DEFINE label == FirstLabel(req[c])
  <2>1. req[c] \in Requests
    BY <1>1, <1>2 DEF Where
  <2>2. /\ label \in {"validate", "cache", "lock"} /\ label \in Labels
        /\ PlaceOf(req[c].op, label)
    BY <1>4, <2>1, RequestFields DEF FirstLabel, PlaceOf, Labels
  <2>3. /\ pc'[c] = label /\ held'[c] = {} /\ inserted'[c] = {} /\ rolled'[c] = {}
        /\ todo'[c] = {} /\ pc' = [pc EXCEPT ![c] = label]
    BY <1>1, <1>4 DEF Go, Functions
  <2> HIDE DEF label
  <2>4. Forward(c)
    BY <1>1, <1>4, <2>2, <2>3 DEF Forward, OnlyCall, Functions
  <2>5. Where(c)'
    BY <1>1, <1>2, <1>4, <2>1, <2>2, <2>3 DEF Where
  <2>6. ~ Writing(c)' /\ Ticks(c)' = Ticks(c)
    BY <1>4, <2>2, <2>3 DEF Writing, Looping, Ticks
  <2>7. \A t \in Ticks(c) : KnownTick(t)'
    BY <1>1, <2>4, KnownStays DEF Hands
  <2>8. Hands(c)'
    BY <1>1, <1>2, <1>4, <2>2, <2>3, <2>6, <2>7 DEF Hands, Looping
  <2>9. Moved(c, label) /\ TablesSame /\ Cached' /\ now' = now
    BY <1>2, <1>4, <2>2, <2>3, <2>4, CacheStays DEF Moved, TablesSame, redis, Shape
  <2>10. Shape'
    BY <2>5, <2>8, <2>9, MoveStep DEF CallOK
  <2> QED
    BY <1>4, <2>3, <2>6, <2>9, <2>10 DEF Restarted, label
<1> QED
  BY <1>3, <1>4 DEF Deadlocked

-----------------------------------------------------------------------------
(* The kinds of steps the rest is about. *)

\* Nothing to do with a batch: a call starts, asks the cache, locks an outcome to
\* close, begins again after a deadlock.
Light(c) ==
  /\ Forward(c) /\ TablesSame /\ ~ Writing(c)' /\ pc'[c] # "done"
  /\ batch' = batch /\ reply'[c] = reply[c] /\ inserted'[c] = {} /\ rolled'[c] = {}
  /\ pc[c] = "idle" => batch[c] = <<>>
  /\ pc[c] # "done" /\ (Writing(c) => req[c].op # "flush")
  /\ \/ held' = held \/ held'[c] = {}
     \/ Granted(c) /\ held' = [held EXCEPT ![c] = @ \cup Wanted(c)]

\* record_odds_update has its one tick to write.
Begins(c) ==
  /\ Moved(c, "insert") /\ TablesSame /\ req[c].op = "record" /\ ~ Writing(c) /\ Writing(c)'
  /\ batch'[c] = <<c>> /\ todo'[c] = {1} /\ inserted'[c] = {} /\ rolled'[c] = {}
  /\ held' = held

Inserts(c) == RowStep(c) /\ TablesSame /\ Writing(c) /\ Writing(c)'

Refers(c) ==
  /\ Writing(c) /\ Writing(c)' /\ TablesSame /\ pc[c] = "refer" /\ Granted(c)
  /\ UNCHANGED <<inserted, rolled, batch>>
  /\ held' = [held EXCEPT ![c] = @ \cup Wanted(c)]
  /\ Moved(c, "refer") \/ (Moved(c, "apply") /\ todo'[c] = FirstOnes(batch[c]))

Applies(c) ==
  /\ Writing(c) /\ Writing(c)' /\ TablesSame /\ pc[c] = "apply" /\ Granted(c)
  /\ UNCHANGED <<inserted, batch>>
  /\ held' = [held EXCEPT ![c] = @ \cup Wanted(c)]
  /\ rolled'[c] = IF RollsForward(Item(c)) THEN rolled[c] \cup {Item(c)} ELSE rolled[c]
  /\ todo'[c] = Left(c) /\ (Moved(c, "apply") \/ Moved(c, "commit"))

\* An end that leaves no row and queues no tick.
Leaves(c) ==
  /\ Ended(c) /\ UNCHANGED <<snapshots, latest, queue, accepted, batch>>
  /\ \E kind \in {"rejected", "failed", "crashed", "closed"} : reply'[c] = Report(kind, 0, 0, 0)

Pushes(c) ==
  /\ Ended(c) /\ UNCHANGED <<postgres, batch>> /\ pc[c] = "push" /\ req[c].op = "queue"
  /\ queue' = Append(queue, c) /\ accepted' = accepted + 1
  /\ \/ reply'[c] = Report("accepted", 0, 0, 0)
     \/ reply'[c] = Report("crashed", 0, 0, 0)

Pops(c) ==
  /\ Forward(c) /\ UNCHANGED <<postgres, accepted>>
  /\ pc[c] = "pop" /\ req[c].op = "flush" /\ batch[c] = <<>>
  /\ batch'[c] = Front /\ queue' = Rest
  /\ \/ /\ PopSize > 0 /\ Moved(c, "insert") /\ held' = held
        /\ todo'[c] = 1 .. PopSize /\ inserted'[c] = {} /\ rolled'[c] = {}
     \/ PopSize > 0 /\ Ended(c) /\ reply'[c] = Report("skipped", 0, 0, PopSize)
     \/ PopSize = 0 /\ Ended(c) /\ reply'[c] = Report("flushed", 0, 0, 0)

Commits(c) ==
  /\ Ended(c) /\ Writing(c) /\ pc[c] = "commit" /\ UNCHANGED <<batch, queue, accepted>>
  /\ snapshots' = snapshots \cup RowsOf(inserted[c])
  /\ latest' = [o \in Outcomes |->
       IF \E t \in rolled[c] : Row(t).outcome = o
         THEN Row(CHOOSE t \in rolled[c] : Row(t).outcome = o) ELSE latest[o]]
  /\ \/ reply'[c] = Report("crashed", 0, 0, 0)
     \/ req[c].op = "record" /\ reply'[c] = Report("recorded", 0, 0, 0)
     \/ /\ req[c].op = "flush"
        /\ reply'[c] = Report("flushed", Cardinality(inserted[c]),
                              Len(batch[c]) - Cardinality(inserted[c]), 0)

Kind(c) == Light(c) \/ Begins(c) \/ Inserts(c) \/ Refers(c) \/ Applies(c) \/ Leaves(c)
             \/ Pushes(c) \/ Pops(c) \/ Commits(c)

LEMMA LightIs ==
  ASSUME Shape, NEW c \in Calls,
         \/ \E r \in Requests : Start(c, r)
         \/ QueueReadStatus(c) \/ CloseLock(c)
  PROVE  Shape' /\ Light(c)
<1>1. Hands(c)
  BY DEF Shape, CallOK
<1>2. CASE \E r \in Requests : Start(c, r)
  <2>1. PICK r \in Requests : Start(c, r)
    BY <1>2
  <2>2. ~ Writing(c)
    BY <2>1 DEF Start, Writing, Looping
  <2> QED
    BY <1>1, <2>1, <2>2, StartShape DEF Light, Hands
<1>3. CASE QueueReadStatus(c)
  BY <1>1, <1>3, ReadStatusShape DEF Light, Moved, Hands, Writing
<1>4. CASE CloseLock(c)
  BY <1>1, <1>4, CloseLockShape DEF Light, Moved, Hands, Writing
<1> QED
  BY <1>2, <1>3, <1>4

LEMMA CallKinds ==
  ASSUME Shape, NEW c \in Calls,
         \/ RecordValidate(c) \/ QueueReadCache(c) \/ QueueFillCache(c) \/ QueuePush(c)
         \/ FlushPop(c) \/ Write(c) \/ CloseCommit(c) \/ Crash(c) \/ Deadlocked(c)
  PROVE  Shape' /\ Kind(c)
<1>1. Hands(c)
  BY DEF Shape, CallOK
<1>2. ASSUME NEW kind \in {"rejected", "failed", "crashed"}, Return(c, kind),
             pc[c] \notin {"idle", "done"}
      PROVE  Shape' /\ Leaves(c)
  BY <1>2, ReturnShape DEF Leaves, redis, postgres
<1>3. CASE RecordValidate(c)
  <2>1. CASE Return(c, "rejected")
    BY <1>2, <1>3, <2>1 DEF RecordValidate, At, Kind
  <2>2. CASE ~ Return(c, "rejected")
    <3>1. Status(req[c].outcome) = "open"
      BY <1>3, <2>2 DEF RecordValidate
    <3> QED
      BY <1>3, <2>2, <3>1, ValidateShape DEF Begins, Kind, Writing, Looping, Moved, Forward
  <2> QED
    BY <2>1, <2>2
<1>4. CASE QueueReadCache(c)
  BY <1>1, <1>4, ReadCacheShape DEF Light, Leaves, Moved, Hands, Writing, Kind, TablesSame, postgres
<1>5. CASE QueueFillCache(c)
  BY <1>1, <1>5, FillCacheShape DEF Light, Leaves, Moved, Hands, Writing, Kind, TablesSame, postgres
<1>6. CASE QueuePush(c)
  BY <1>6, PushShape DEF Pushes, Kind
<1>7. CASE FlushPop(c)
  BY <1>7, PopShape DEF Pops, Kind
<1>8. CASE InsertRow(c)
  BY <1>8, InsertShape DEF Inserts, Leaves, Kind, TablesSame, postgres
<1>9. CASE ReferRow(c)
  BY <1>9, ReferShape DEF Refers, Kind
<1>10. CASE ApplyLatest(c)
  BY <1>10, ApplyShape DEF Applies, Kind
<1>11. CASE CommitTicks(c)
  BY <1>11, CommitShape DEF Commits, Kind, redis
<1>12. CASE CloseCommit(c)
  BY <1>12, CloseCommitShape DEF Leaves, Kind, redis
<1>13. CASE Crash(c)
  BY <1>2, <1>13 DEF Crash, Active, Kind
<1>14. CASE Deadlocked(c)
  <2>1. Shape' /\ TablesSame /\ batch' = batch
        /\ (Restarted(c) \/ (Ended(c) /\ reply'[c] = Report("failed", 0, 0, 0)))
    BY <1>14, DeadlockShape
  <2>2. CASE Restarted(c)
    BY <2>1, <2>2 DEF Restarted, Moved, Light, Kind
  <2>3. CASE Ended(c) /\ reply'[c] = Report("failed", 0, 0, 0)
    BY <2>1, <2>3 DEF Leaves, Kind, TablesSame, postgres
  <2> QED
    BY <2>1, <2>2, <2>3
<1> QED
  BY <1>3, <1>4, <1>5, <1>6, <1>7, <1>8, <1>9, <1>10, <1>11, <1>12, <1>13, <1>14 DEF Write

\* Time passes, or nothing happens.
CallsRest == UNCHANGED <<snapshots, latest, queue, accepted, req, pc, work, reply>>

LEMMA RestKeepsShape ==
  ASSUME Shape, ClockTick \/ UNCHANGED vars
  PROVE  Shape' /\ CallsRest
<1>1. CallsRest /\ settled' = settled
  BY DEF ClockTick, vars, CallsRest, postgres, redis
<1>2. Functions' /\ \A c \in Calls : CallOK(c)'
  <2>1. /\ UNCHANGED <<req, pc, held, inserted, rolled, batch, todo, found, reply>>
    BY <1>1 DEF CallsRest, work
  <2>2. Functions'
    BY <2>1 DEF Shape, Functions
  <2>3. ASSUME NEW c \in Calls PROVE CallOK(c)'
    <3>1. CallOK(c)
      BY DEF Shape
    <3> QED
      BY <2>1, <3>1 DEF CallOK, Where, Hands, Ticks, KnownTick, Row, Writing
  <2> QED
    BY <2>2, <2>3
<1>3. QueueKnown'
  BY <1>1 DEF Shape, Tables, QueueKnown, KnownTick, Row, CallsRest
<1>4. now' \in 0 .. MaxClock /\ Cached'
  <2>1. CASE UNCHANGED vars
    BY <2>1, CacheStays DEF vars, redis, Shape, Tables
  <2>2. CASE ClockTick
    <3>1. /\ now < MaxClock /\ now' = now + 1
          /\ cache' = [i \in OutcomeIds |->
               IF cache[i] # None /\ cache[i].until <= now + 1 THEN None ELSE cache[i]]
      BY <2>2 DEF ClockTick
    <3>2. now \in 0 .. MaxClock /\ MaxClock \in Nat /\ TTL \in Nat /\ Cached
      BY FeedAssumption DEF Shape, Tables
    <3>3. ASSUME NEW i \in OutcomeIds, cache'[i] # None
          PROVE  /\ cache'[i].status \in Statuses /\ cache'[i].until \in now' + 1 .. now' + TTL
                 /\ cache'[i].status = "open" => i \in Outcomes
      <4>1. cache'[i] = cache[i] /\ cache[i] # None /\ ~ (cache[i].until <= now + 1)
        BY <3>1, <3>3
      <4>2. cache[i].status \in Statuses /\ cache[i].until \in now + 1 .. now + TTL
            /\ (cache[i].status = "open" => i \in Outcomes)
        BY <3>2, <4>1 DEF Cached
      <4> QED
        BY <3>1, <3>2, <4>1, <4>2
    <3> QED
      BY <3>1, <3>2, <3>3 DEF Cached
  <2> QED
    BY <2>1, <2>2
<1> QED
  BY <1>1, <1>2, <1>3, <1>4 DEF Shape, Tables, CallsRest

LEMMA NextKinds ==
  ASSUME Shape, [Next]_vars
  PROVE  Shape' /\ (CallsRest \/ \E c \in Calls : Kind(c))
<1>1. CASE \E c \in Calls : (\E r \in Requests : Start(c, r)) \/ QueueReadStatus(c) \/ CloseLock(c)
  BY <1>1, LightIs DEF Kind
<1>2. CASE \E c \in Calls :
             \/ RecordValidate(c) \/ QueueReadCache(c) \/ QueueFillCache(c) \/ QueuePush(c)
             \/ FlushPop(c) \/ Write(c) \/ CloseCommit(c) \/ Crash(c) \/ Deadlocked(c)
  BY <1>2, CallKinds
<1>3. CASE ClockTick \/ UNCHANGED vars
  BY <1>3, RestKeepsShape
<1> QED
  BY <1>1, <1>2, <1>3 DEF Next, Record, Queue, Finished

LEMMA ShapeInit == Init => Shape
<1> SUFFICES ASSUME Init PROVE Shape
  OBVIOUS
<1>1. Functions
  BY DEF Init, Functions, Labels
<1>2. Tables /\ Cached
  BY FeedAssumption DEF Init, Tables, QueueKnown, Cached
<1>3. ASSUME NEW c \in Calls PROVE CallOK(c)
  <2>1. Where(c)
    BY DEF Init, Where
  <2>2. Ticks(c) = {} /\ ~ Writing(c) /\ Len(batch[c]) = 0
    BY DEF Init, Ticks, Writing, Looping
  <2>3. Hands(c)
    BY <2>2, FeedAssumption DEF Init, Hands, Looping
  <2> QED
    BY <2>1, <2>3 DEF CallOK
<1> QED
  BY <1>1, <1>2, <1>3 DEF Shape

LEMMA ShapeHolds == Spec => []Shape
<1>1. Shape /\ [Next]_vars => Shape'
  BY NextKinds
<1> QED
  BY <1>1, ShapeInit, PTL DEF Spec

-----------------------------------------------------------------------------
(* The places of ticks. *)

LEMMA KindsStart ==
  ASSUME Shape, NEW c \in Calls, Kind(c)
  PROVE  /\ Forward(c) /\ pc[c] # "done" /\ reply[c] = Report("none", 0, 0, 0)
         /\ \A d \in Calls \ {c} : Writing(d)' <=> Writing(d)
<1>1. Forward(c) /\ pc[c] # "done"
  BY DEF Kind, Light, Begins, Inserts, Refers, Applies, Leaves, Pushes, Pops, Commits, RowStep,
         Moved, Ended
<1>2. reply[c] = Report("none", 0, 0, 0)
  BY <1>1 DEF Shape, CallOK, Where
<1> QED
  BY <1>1, <1>2 DEF Forward, OnlyCall, Writing

\* The batches of flushes are what they were.
PoppedSame ==
  /\ Popped' = Popped
  /\ \A p \in Popped : p[1] \in Calls /\ batch'[p[1]][p[2]] = batch[p[1]][p[2]]

LEMMA PoppedStays ==
  ASSUME Shape, NEW c \in Calls, Forward(c),
         pc[c] = "idle" => batch[c] = <<>>,
         batch'[c] = batch[c] \/ (pc[c] # "idle" /\ req[c].op # "flush")
  PROVE  PoppedSame
<1>1. \A d \in Calls \ {c} : batch'[d] = batch[d] /\ req'[d] = req[d]
  BY DEF Forward, OnlyCall
<1>2. \A d \in Calls \ {c} : d \in Flushes' <=> d \in Flushes
  BY <1>1 DEF Flushes
<1>3. \A i : c \in Flushes' /\ i \in DOMAIN batch'[c] <=> c \in Flushes /\ i \in DOMAIN batch[c]
  <2>1. CASE pc[c] = "idle"
    <3>1. req[c] = None
      BY <2>1 DEF Shape, CallOK, Where
    <3> QED
      BY <2>1, <3>1 DEF Flushes
  <2>2. CASE pc[c] # "idle"
    BY <2>2 DEF Flushes, Forward
  <2> QED
    BY <2>1, <2>2
<1>4. \A p : p \in Popped' <=> p \in Popped
  <2>1. Flushes \subseteq Calls /\ Flushes' \subseteq Calls
    BY DEF Flushes
  <2> QED
    BY <1>1, <1>2, <1>3, <2>1 DEF Popped
<1>5. ASSUME NEW p \in Popped
      PROVE  p[1] \in Calls /\ batch'[p[1]][p[2]] = batch[p[1]][p[2]]
  <2>1. p[1] \in Calls /\ p[1] \in Flushes
    BY DEF Popped, Flushes
  <2>2. CASE p[1] = c
    <3>1. req[c] # None /\ req[c].op = "flush"
      BY <2>1, <2>2 DEF Flushes
    <3>2. pc[c] # "idle"
      BY <3>1 DEF Shape, CallOK, Where
    <3> QED
      BY <2>1, <2>2, <3>1, <3>2
  <2> QED
    BY <1>1, <2>1, <2>2
<1> QED
  BY <1>4, <1>5 DEF PoppedSame

\* Where only a call that is no push goes on.
LEMMA KindsPop ==
  ASSUME Shape, NEW c \in Calls, Kind(c), ~ Pops(c)
  PROVE  PoppedSame
<1>1. Forward(c) /\ Hands(c)
  BY KindsStart DEF Shape, CallOK
<1>2. batch'[c] = batch[c] \/ (pc[c] # "idle" /\ req[c].op # "flush")
  BY DEF Kind, Light, Begins, Inserts, Refers, Applies, Leaves, Pushes, Commits, RowStep, Moved
<1>3. pc[c] = "idle" => batch[c] = <<>>
  BY <1>1 DEF Hands
<1> QED
  BY <1>1, <1>2, <1>3, PoppedStays

LEMMA PlaceIs ==
  ASSUME NEW p
  PROVE  p \in Places <=> \/ p \in Popped
                          \/ \E i \in DOMAIN queue : p = <<None, i>>
BY DEF Places

LEMMA PoppedIs ==
  ASSUME NEW p \in Popped
  PROVE  /\ p = <<p[1], p[2]>> /\ p[1] \in Calls /\ p[1] # None /\ p[1] \in Flushes
         /\ p[2] \in DOMAIN batch[p[1]] /\ TickAt(p) = batch[p[1]][p[2]]
BY FeedAssumption DEF Popped, TickAt, Flushes

\* The places are finitely many.
LEMMA PlacesFinite ==
  ASSUME Shape
  PROVE  IsFiniteSet(Flushes) /\ IsFiniteSet(Flushes \X (1 .. BatchSize)) /\ IsFiniteSet(Popped)
<1>1. Flushes \in SUBSET Calls /\ IsFiniteSet(Calls) /\ BatchSize \in Int
  BY FeedAssumption DEF Flushes
<1>2. IsFiniteSet(Flushes)
  BY <1>1, FS_Subset
<1>3. IsFiniteSet(1 .. BatchSize)
  BY <1>1, FS_Interval
<1>4. IsFiniteSet(Flushes \X (1 .. BatchSize))
  BY <1>2, <1>3, FS_Product
<1>5. Popped \in SUBSET (Flushes \X (1 .. BatchSize))
  BY DEF Popped
<1> QED
  BY <1>2, <1>4, <1>5, FS_Subset

\* Who has pushed has ended, and stays so.
LEMMA SentStays ==
  ASSUME NEW c \in Calls, Forward(c), pc[c] # "done", NEW t, Sent(t)
  PROVE  Sent(t)' /\ t # c
BY DEF Sent, Forward, OnlyCall

PlacesApart == \A p, q \in Places : TickAt(p) = TickAt(q) => p = q
AllSent     == \A p \in Places : Sent(TickAt(p))
AllPlaced   == \A t \in Calls : reply[t].kind = "accepted" => \E p \in Places : TickAt(p) = t

\* Where no tick is pushed or popped, each stays where it is.
LEMMA PlacesStay ==
  ASSUME Shape, NEW c \in Calls, Kind(c), ~ Pops(c), ~ Pushes(c)
  PROVE  /\ Places' = Places /\ queue' = queue /\ accepted' = accepted
         /\ \A p \in Places : TickAt(p)' = TickAt(p)
<1>1. PoppedSame
  BY KindsPop
<1>2. queue' = queue /\ accepted' = accepted
  BY DEF Kind, Light, Begins, Inserts, Refers, Applies, Leaves, Commits, TablesSame
<1>3. Places' = Places
  BY <1>1, <1>2 DEF Places, PoppedSame
<1>4. ASSUME NEW p \in Places
      PROVE  TickAt(p)' = TickAt(p)
  <2>1. CASE p \in Popped
    <3>1. p[1] # None
      BY <2>1, PoppedIs
    <3> QED
      BY <1>1, <2>1, <3>1 DEF TickAt, PoppedSame
  <2>2. CASE \E i \in DOMAIN queue : p = <<None, i>>
    BY <1>2, <2>2 DEF TickAt
  <2> QED
    BY <2>1, <2>2, PlaceIs
<1> QED
  BY <1>2, <1>3, <1>4

LEMMA PlacingSteady ==
  ASSUME Shape, Placing, NEW c \in Calls, Kind(c), ~ Pops(c), ~ Pushes(c)
  PROVE  Placing'
<1>1. /\ Forward(c) /\ pc[c] # "done" /\ reply[c] = Report("none", 0, 0, 0) /\ PoppedSame
      /\ Places' = Places /\ queue' = queue /\ accepted' = accepted
      /\ \A p \in Places : TickAt(p)' = TickAt(p)
  BY KindsStart, KindsPop, PlacesStay
<1>2. reply'[c].kind # "accepted"
  BY <1>1 DEF Kind, Light, Begins, Inserts, Refers, Applies, Leaves, Commits, RowStep, Moved, Report
<1>3. AllSent' /\ PlacesApart'
  BY <1>1, SentStays DEF Placing, AllSent, PlacesApart
<1>4. AllPlaced'
  <2>1. \A t \in Calls : reply'[t].kind = "accepted" => reply[t].kind = "accepted"
    BY <1>1, <1>2 DEF Forward, OnlyCall
  <2> QED
    BY <1>1, <2>1 DEF Placing, AllPlaced
<1> QED
  BY <1>1, <1>3, <1>4 DEF Placing, AllSent, PlacesApart, AllPlaced, PoppedSame

LEMMA PlacingPush ==
  ASSUME Shape, Placing, NEW c \in Calls, Pushes(c)
  PROVE  Placing'
<1> PICK last : last = Len(queue) + 1
  OBVIOUS
<1> DEFINE new == <<None, last>>
<1>1. /\ Forward(c) /\ pc[c] = "push" /\ req[c].op = "queue" /\ pc'[c] = "done" /\ req'[c] = req[c]
      /\ reply'[c].kind \in {"accepted", "crashed"}
      /\ queue' = Append(queue, c) /\ accepted' = accepted + 1
  BY DEF Pushes, Ended, Forward, Report
<1>2. queue \in Seq(Calls) /\ accepted = Len(queue) + Cardinality(Popped)
  BY DEF Shape, Tables, Placing
<1>3. PoppedSame
  <2>1. batch'[c] = batch[c]
    BY DEF Pushes
  <2> QED
    BY <1>1, <2>1, PoppedStays
<1>4. /\ DOMAIN queue' = DOMAIN queue \cup {Len(queue) + 1} /\ queue'[Len(queue) + 1] = c
      /\ Len(queue') = Len(queue) + 1
      /\ \A i \in DOMAIN queue : i # Len(queue) + 1 /\ queue'[i] = queue[i]
  BY <1>1, <1>2
<1>5. \A p : p \in Places' <=> p \in Places \/ p = new
  BY <1>3, <1>4 DEF Places, PoppedSame
<1>6. TickAt(new)' = c
  BY <1>4 DEF TickAt
<1>7. ASSUME NEW p \in Places
      PROVE  TickAt(p)' = TickAt(p)
  <2>1. CASE p \in Popped
    <3>1. p[1] # None
      BY <2>1, PoppedIs
    <3> QED
      BY <1>3, <2>1, <3>1 DEF TickAt, PoppedSame
  <2>2. CASE \E i \in DOMAIN queue : p = <<None, i>>
    BY <1>4, <2>2 DEF TickAt
  <2> QED
    BY <2>1, <2>2, PlaceIs
<1> HIDE DEF new
<1>8. \A p \in Places : Sent(TickAt(p))' /\ TickAt(p) # c
  BY <1>1, <1>7, SentStays DEF Placing
<1>9. Sent(c)'
  BY <1>1 DEF Sent
<1>10. AllSent'
  <2>1. ASSUME NEW p \in Places' PROVE Sent(TickAt(p))'
    BY <1>5, <1>6, <1>7, <1>8, <1>9, <2>1
  <2> QED
    BY <2>1 DEF AllSent
<1>11. PlacesApart'
  <2>1. ASSUME NEW p \in Places', NEW q \in Places', TickAt(p)' = TickAt(q)' PROVE p = q
    BY <1>5, <1>6, <1>7, <1>8, <2>1 DEF Placing
  <2> QED
    BY <2>1 DEF PlacesApart
<1>12. AllPlaced'
  <2>1. ASSUME NEW t \in Calls, reply'[t].kind = "accepted"
        PROVE  \E p \in Places' : TickAt(p)' = t
    <3>1. CASE t = c
      BY <1>5, <1>6, <3>1
    <3>2. CASE t # c
      <4>1. reply[t].kind = "accepted"
        BY <1>1, <2>1, <3>2 DEF Forward, OnlyCall
      <4> QED
        BY <1>5, <1>7, <4>1 DEF Placing
    <3> QED
      BY <3>1, <3>2
  <2> QED
    BY <2>1 DEF AllPlaced
<1>13. accepted' = Len(queue') + Cardinality(Popped')
  <2>1. Cardinality(Popped) \in Nat /\ Len(queue) \in Nat
    BY <1>2, PlacesFinite, FS_CardinalityType
  <2> QED
    BY <1>1, <1>2, <1>3, <1>4, <2>1 DEF PoppedSame
<1> QED
  BY <1>10, <1>11, <1>12, <1>13 DEF Placing, AllSent, PlacesApart, AllPlaced

\* What a flush pops changes its place only.
LEMMA PopMoves ==
  ASSUME Shape, NEW c \in Calls, Pops(c)
  PROVE  /\ c \in Flushes /\ Flushes' = Flushes
         /\ Popped' = Popped \cup ({c} \X (1 .. PopSize)) /\ Popped \cap ({c} \X (1 .. PopSize)) = {}
         /\ \A p \in Popped : TickAt(p)' = TickAt(p) /\ p[1] # c
         /\ \A i \in 1 .. PopSize : TickAt(<<c, i>>)' = queue[i] /\ i \in DOMAIN queue
<1>1. /\ Forward(c) /\ pc[c] = "pop" /\ req[c].op = "flush" /\ batch[c] = <<>>
      /\ batch'[c] = Front /\ queue' = Rest /\ queue \in Seq(Calls)
      /\ req[c] # None
  BY FeedAssumption DEF Pops, Shape, Tables, CallOK, Where
<1>2. /\ PopSize \in Nat /\ PopSize <= BatchSize /\ DOMAIN Front = 1 .. PopSize
      /\ \A i \in 1 .. PopSize : i \in DOMAIN queue /\ Front[i] = queue[i]
  BY <1>1, PopFacts
<1>3. \A d \in Calls \ {c} : batch'[d] = batch[d] /\ req'[d] = req[d]
  BY <1>1 DEF Forward, OnlyCall
<1>4. req'[c] = req[c]
  BY <1>1 DEF Forward
<1>5. c \in Flushes /\ Flushes' = Flushes /\ c # None
  BY <1>1, <1>3, <1>4, FeedAssumption DEF Flushes
<1> HIDE DEF PopSize, Front, Rest
<1>6. 1 .. PopSize \subseteq 1 .. BatchSize
  BY <1>2, FeedAssumption
<1>7. \A p \in Popped : p[1] # c
  BY <1>1 DEF Popped
<1>8. \A p : p \in Popped' <=> p \in Popped \/ p \in {c} \X (1 .. PopSize)
  <2>1. Flushes \subseteq Calls
    BY DEF Flushes
  <2>2. \A p : p[1] # c => (p \in Popped' <=> p \in Popped)
    BY <1>3, <1>5, <2>1 DEF Popped
  <2>3. \A p : p[1] = c => (p \in Popped' <=> p \in {c} \X (1 .. PopSize))
    BY <1>1, <1>2, <1>5, <1>6 DEF Popped
  <2>4. \A p \in {c} \X (1 .. PopSize) : p[1] = c
    OBVIOUS
  <2> QED
    BY <1>7, <2>2, <2>3, <2>4
<1>9. Popped \cap ({c} \X (1 .. PopSize)) = {}
  BY <1>7
<1>10. \A p \in Popped : TickAt(p)' = TickAt(p)
  <2>1. ASSUME NEW p \in Popped PROVE TickAt(p)' = TickAt(p)
    <3>1. p[1] # None /\ p[1] # c /\ p[1] \in Calls
      BY <1>7, PoppedIs
    <3> QED
      BY <1>3, <3>1 DEF TickAt
  <2> QED
    BY <2>1
<1>11. \A i \in 1 .. PopSize : TickAt(<<c, i>>)' = queue[i]
  BY <1>1, <1>2, <1>5 DEF TickAt
<1> QED
  BY <1>2, <1>5, <1>7, <1>8, <1>9, <1>10, <1>11

LEMMA PlacingPop ==
  ASSUME Shape, Placing, NEW c \in Calls, Pops(c)
  PROVE  Placing'
<1>1. /\ Forward(c) /\ pc[c] # "done" /\ accepted' = accepted /\ queue' = Rest
      /\ reply'[c].kind # "accepted"
  <2>1. reply[c] = Report("none", 0, 0, 0)
    BY KindsStart DEF Kind
  <2> QED
    BY <2>1 DEF Pops, Moved, Report
<1>2. /\ c \in Calls /\ c # None
      /\ Popped' = Popped \cup ({c} \X (1 .. PopSize)) /\ Popped \cap ({c} \X (1 .. PopSize)) = {}
      /\ \A p \in Popped : TickAt(p)' = TickAt(p) /\ p[1] # c
      /\ \A i \in 1 .. PopSize : TickAt(<<c, i>>)' = queue[i] /\ i \in DOMAIN queue
  BY PopMoves, FeedAssumption
<1>3. PICK size \in Nat : size = PopSize /\ size <= Len(queue)
  BY PopFacts DEF Shape, Tables
<1>4. /\ queue \in Seq(Calls) /\ Len(queue') = Len(queue) - size
      /\ DOMAIN queue' = 1 .. Len(queue) - size
      /\ \A i \in 1 .. Len(queue) - size : size + i \in DOMAIN queue /\ queue'[i] = queue[size + i]
  BY <1>1, <1>3, PopFacts DEF Shape, Tables
<1> HIDE DEF PopSize, Rest
<1> DEFINE From(p) == IF p[1] = None THEN <<None, size + p[2]>>
                      ELSE IF p[1] = c THEN <<None, p[2]>> ELSE p
<1>5. \A p \in Places' : \/ p \in Popped
                         \/ \E i \in 1 .. size : p = <<c, i>>
                         \/ \E i \in 1 .. Len(queue) - size : p = <<None, i>>
  <2>1. \A p \in {c} \X (1 .. size) : \E i \in 1 .. size : p = <<c, i>>
    OBVIOUS
  <2>2. \A p \in {None} \X (1 .. Len(queue) - size) :
          \E i \in 1 .. Len(queue) - size : p = <<None, i>>
    OBVIOUS
  <2> QED
    BY <1>2, <1>3, <1>4, <2>1, <2>2 DEF Places
<1>6. /\ \A p \in Popped : p \in Places' /\ From(p) = p /\ p[1] # None
      /\ \A i \in 1 .. size : <<c, i>> \in Places' /\ From(<<c, i>>) = <<None, i>>
      /\ \A i \in 1 .. Len(queue) - size :
           <<None, i>> \in Places' /\ From(<<None, i>>) = <<None, size + i>>
  BY <1>2, <1>3, <1>4, PoppedIs DEF Places
<1>7. ASSUME NEW p \in Places'
      PROVE  From(p) \in Places /\ TickAt(p)' = TickAt(From(p))
  <2>1. CASE p \in Popped
    BY <1>2, <1>6, <2>1, PlaceIs
  <2>2. CASE \E i \in 1 .. size : p = <<c, i>>
    BY <1>2, <1>3, <1>6, <2>2, PlaceIs DEF TickAt
  <2>3. CASE \E i \in 1 .. Len(queue) - size : p = <<None, i>>
    <3>1. PICK i \in 1 .. Len(queue) - size : p = <<None, i>>
      BY <2>3
    <3>2. From(p) = <<None, size + i>> /\ size + i \in DOMAIN queue /\ queue'[i] = queue[size + i]
      BY <1>4, <1>6, <3>1
    <3>3. From(p) \in Places /\ TickAt(From(p)) = queue[size + i]
      BY <3>2, PlaceIs DEF TickAt
    <3>4. TickAt(p)' = queue'[i]
      BY <3>1 DEF TickAt
    <3> QED
      BY <3>2, <3>3, <3>4
  <2> QED
    BY <1>5, <2>1, <2>2, <2>3
<1>8. ASSUME NEW p \in Places', NEW q \in Places', From(p) = From(q)
      PROVE  p = q
  <2>1. \A i \in 1 .. size, j \in 1 .. Len(queue) - size : i # size + j
    BY <1>3
  <2>2. \A i, j \in 1 .. Len(queue) - size : size + i = size + j => i = j
    BY <1>3
  <2>3. \A i, j : <<None, i>> = <<None, j>> => i = j
    OBVIOUS
  <2>4. \A x \in Popped : \A i : From(x) # <<None, i>>
    BY <1>6
  <2> HIDE DEF From
  <2> QED
    BY <1>5, <1>6, <1>8, <2>1, <2>2, <2>3, <2>4
<1>9. ASSUME NEW q \in Places
      PROVE  \E p \in Places' : From(p) = q
  <2>1. CASE q \in Popped
    BY <1>6, <2>1
  <2>2. CASE \E i \in DOMAIN queue : q = <<None, i>>
    <3>1. PICK i \in 1 .. Len(queue) : q = <<None, i>>
      BY <1>4, <2>2
    <3>2. CASE i <= size
      <4>1. i \in 1 .. size
        BY <3>2
      <4> QED
        BY <1>6, <3>1, <4>1
    <3>3. CASE i > size
      <4>1. i - size \in 1 .. Len(queue) - size /\ size + (i - size) = i
        BY <1>3, <3>3
      <4> QED
        BY <1>6, <3>1, <4>1
    <3> QED
      BY <1>3, <3>2, <3>3
  <2> QED
    BY <2>1, <2>2, PlaceIs
<1> HIDE DEF From
<1>10. AllSent'
  <2>1. ASSUME NEW p \in Places' PROVE Sent(TickAt(p))'
    <3>1. Sent(TickAt(From(p)))
      BY <1>7 DEF Placing
    <3>2. \A t : Sent(t) => Sent(t)'
      BY <1>1, SentStays
    <3>3. PICK t : t = TickAt(From(p))
      OBVIOUS
    <3>4. Sent(t)' /\ TickAt(p)' = t
      BY <1>7, <3>1, <3>2, <3>3
    <3> QED
      BY <3>4 DEF Sent
  <2> QED
    BY <2>1 DEF AllSent
<1>11. PlacesApart'
  <2>1. ASSUME NEW p \in Places', NEW q \in Places', TickAt(p)' = TickAt(q)' PROVE p = q
    BY <1>7, <1>8, <2>1 DEF Placing
  <2> QED
    BY <2>1 DEF PlacesApart
<1>12. AllPlaced'
  <2>1. \A t \in Calls : reply'[t].kind = "accepted" => reply[t].kind = "accepted"
    BY <1>1 DEF Forward, OnlyCall
  <2>2. ASSUME NEW t \in Calls, reply[t].kind = "accepted" PROVE \E p \in Places' : TickAt(p)' = t
    <3>1. PICK q \in Places : TickAt(q) = t
      BY <2>2 DEF Placing
    <3>2. PICK p \in Places' : From(p) = q
      BY <1>9
    <3> QED
      BY <1>7, <3>1, <3>2
  <2> QED
    BY <2>1, <2>2 DEF AllPlaced
<1>13. accepted' = Len(queue') + Cardinality(Popped')
  <2>1. Cardinality(Popped) \in Nat /\ IsFiniteSet(Popped) /\ Len(queue) \in Nat
    BY <1>4, PlacesFinite, FS_CardinalityType
  <2>2. IsFiniteSet(1 .. size) /\ Cardinality(1 .. size) = size
    BY <1>3, FS_Interval
  <2>3. IsFiniteSet({c}) /\ Cardinality({c}) = 1
    BY FS_Singleton
  <2>4. IsFiniteSet({c} \X (1 .. size)) /\ Cardinality({c} \X (1 .. size)) = size
    BY <1>3, <2>2, <2>3, FS_Product
  <2>5. Cardinality(Popped') = Cardinality(Popped) + size
    <3>1. Cardinality(Popped \cup ({c} \X (1 .. size)))
            = Cardinality(Popped) + size - Cardinality(Popped \cap ({c} \X (1 .. size)))
      BY <2>1, <2>4, FS_Union
    <3>2. Cardinality(Popped \cap ({c} \X (1 .. size))) = 0
      BY <1>2, <1>3, FS_EmptySet
    <3> QED
      BY <1>2, <1>3, <2>1, <3>1, <3>2
  <2> QED
    BY <1>1, <1>3, <1>4, <2>1, <2>5 DEF Placing
<1> QED
  BY <1>10, <1>11, <1>12, <1>13 DEF Placing, AllSent, PlacesApart, AllPlaced

LEMMA PlacingHolds == Spec => []Placing
<1>1. ASSUME Init PROVE Placing
  <2>1. Places = {} /\ Popped = {} /\ queue = <<>> /\ accepted = 0
    BY <1>1 DEF Init, Places, Popped, Flushes
  <2>2. \A t \in Calls : reply[t].kind # "accepted"
    BY <1>1 DEF Init, Report
  <2> QED
    BY <2>1, <2>2, FS_EmptySet DEF Placing
<1>2. ASSUME Shape, Placing, [Next]_vars PROVE Placing'
  <2>1. CASE CallsRest
    BY <1>2, <2>1 DEF Placing, Places, Popped, TickAt, Flushes, Sent, CallsRest, work
  <2>2. CASE \E c \in Calls : Kind(c)
    BY <1>2, <2>2, PlacingSteady, PlacingPush, PlacingPop
  <2> QED
    BY <1>2, <2>1, <2>2, NextKinds
<1> QED
  BY <1>1, <1>2, ShapeHolds, PTL DEF Spec

\* So many places there are, and no more than calls.
LEMMA CountPlaces ==
  ASSUME Shape, Placing
  PROVE  /\ IsFiniteSet(Places) /\ Cardinality(Places) = Len(queue) + Cardinality(Popped)
         /\ Cardinality(Places) \in 0 .. Cardinality(Calls)
<1> DEFINE Q == {None} \X DOMAIN queue
<1>1. queue \in Seq(Calls) /\ Len(queue) \in Nat /\ DOMAIN queue = 1 .. Len(queue)
  BY DEF Shape, Tables
<1>2. IsFiniteSet(Q) /\ Cardinality(Q) = Len(queue)
  <2>1. PICK n \in Nat : n = Len(queue) /\ DOMAIN queue = 1 .. n
    BY <1>1
  <2>2. IsFiniteSet(1 .. n) /\ Cardinality(1 .. n) = n
    BY FS_Interval
  <2>3. IsFiniteSet({None}) /\ Cardinality({None}) = 1
    BY FS_Singleton
  <2>4. IsFiniteSet({None} \X (1 .. n)) /\ Cardinality({None} \X (1 .. n)) = n
    BY <2>2, <2>3, FS_Product
  <2> QED
    BY <2>1, <2>4
<1>3. Q \cap Popped = {}
  BY PoppedIs
<1>4. IsFiniteSet(Popped) /\ Cardinality(Popped) \in Nat
  BY PlacesFinite, FS_CardinalityType
<1>5. IsFiniteSet(Places) /\ Cardinality(Places) = Len(queue) + Cardinality(Popped)
  <2>1. Places = Q \cup Popped
    BY DEF Places
  <2> HIDE DEF Q
  <2>2. Cardinality(Q \cap Popped) = 0
    BY <1>3, FS_EmptySet
  <2> QED
    BY <1>1, <1>2, <1>4, <2>1, <2>2, FS_Union
<1>6. Cardinality(Places) <= Cardinality(Calls) /\ Cardinality(Calls) \in Nat
  <2> DEFINE f == [p \in Places |-> TickAt(p)]
  <2>1. f \in Injection(Places, Calls)
    BY DEF Placing, Sent, Injection, IsInjective
  <2> HIDE DEF f
  <2>2. IsFiniteSet(Calls)
    BY FeedAssumption
  <2> QED
    BY <2>1, <2>2, FS_Injection, FS_CardinalityType
<1> QED
  BY <1>1, <1>4, <1>5, <1>6

\* Calls, rows and the cache of Redis are what the specification says they are,
\* and the counter never runs past the calls.
THEOREM FeedTypes == Spec => []TypeOK
<1>1. ASSUME Shape, Placing PROVE TypeOK
  <2>1. Functions /\ Tables /\ Cached
    BY <1>1 DEF Shape
  <2>2. accepted \in 0 .. Cardinality(Calls)
    BY <1>1, CountPlaces DEF Placing
  <2>3. ASSUME NEW c \in Calls
        PROVE  /\ req[c] \in Requests \cup {None} /\ pc[c] \in Labels
               /\ held[c] \subseteq [row : {"outcome"} \X Outcomes, mode : Modes]
               /\ inserted[c] \subseteq Calls /\ rolled[c] \subseteq Calls
               /\ batch[c] \in Seq(Calls) /\ Len(batch[c]) <= BatchSize
               /\ todo[c] \subseteq DOMAIN batch[c]
               /\ pc[c] \in {"insert", "refer", "apply"} => todo[c] # {}
    BY <1>1, <2>1 DEF Shape, CallOK, Hands, Functions, Looping
  <2> QED
    BY <2>1, <2>2, <2>3, FeedAssumption DEF TypeOK, Tables, Cached, Statuses
<1> QED
  BY <1>1, ShapeHolds, PlacingHolds, PTL

\* Whatever the cache says, a tick of an outcome that has no row is not queued, so
\* that no batch fails for it.
THEOREM OnlyKnownOutcomesQueued == Spec => []QueuedOutcomesExist
<1>1. ASSUME Shape PROVE QueuedOutcomesExist
  BY <1>1, KnownFields DEF Shape, Tables, QueueKnown, QueuedOutcomesExist
<1> QED
  BY <1>1, ShapeHolds, PTL

\* A tick is in the queue or in the batch of one flush, at one position; none that
\* a caller was told of is missing; and the counter counts just those.
THEOREM EveryTickInOnePlace == Spec => []TicksConserved
<1>1. ASSUME Shape, Placing PROVE TicksConserved
  BY <1>1, CountPlaces DEF Placing, TicksConserved
<1> QED
  BY <1>1, ShapeHolds, PlacingHolds, PTL

-----------------------------------------------------------------------------
(* The keys of the rows. *)

\* The rows that one call's ticks make do not change as calls go on.
LEMMA RowsStay ==
  ASSUME Shape, NEW c \in Calls, Forward(c), NEW d \in Calls, NEW t \in Ticks(d)
  PROVE  KnownTick(t) /\ Row(t)' = Row(t)
<1>1. KnownTick(t)
  BY DEF Shape, CallOK, Hands
<1> QED
  BY <1>1, KnownStays

LEMMA InsertedAreTicks ==
  ASSUME Shape, NEW c \in Calls
  PROVE  inserted[c] \subseteq Ticks(c) /\ rolled[c] \subseteq Ticks(c)
BY DEF Shape, CallOK, Hands

LEMMA InsertingStays ==
  ASSUME Shape, NEW c \in Calls, Forward(c), NEW d \in Calls, Inserting(d),
         batch'[d] = batch[d], inserted'[d] = inserted[d], req'[d] = req[d],
         snapshots \subseteq snapshots',
         \/ pc'[d] = pc[d] /\ todo'[d] = todo[d]
         \/ pc[d] # "insert" /\ pc'[d] # "insert"
  PROVE  Inserting(d)'
<1>1. Passed(d)' = Passed(d) /\ Passed(d) \subseteq DOMAIN batch[d]
  BY DEF Passed
<1>2. \A i \in DOMAIN batch[d] : batch[d][i] \in Ticks(d) /\ Row(batch[d][i])' = Row(batch[d][i])
  BY RowsStay DEF Ticks
<1>3. ASSUME NEW i \in Passed(d) PROVE Covered(d, i)'
  <2>1. Covered(d, i)
    BY DEF Inserting
  <2>2. CASE batch[d][i] \in inserted[d]
    BY <2>2 DEF Covered
  <2>3. CASE \E s \in snapshots : SameKey(s, Row(batch[d][i]))
    <3>1. PICK s \in snapshots : SameKey(s, Row(batch[d][i]))
      BY <2>3
    <3> QED
      BY <1>1, <1>2, <3>1 DEF Covered
  <2>4. CASE \E j \in Passed(d) : /\ j < i /\ batch[d][j] \in inserted[d]
                                  /\ SameKey(Row(batch[d][j]), Row(batch[d][i]))
    BY <1>1, <1>2, <2>4 DEF Covered
  <2> QED
    BY <2>1, <2>2, <2>3, <2>4 DEF Covered
<1> QED
  BY <1>1, <1>3 DEF Inserting

LEMMA SameKeyTurns ==
  ASSUME NEW r, NEW s, SameKey(r, s)
  PROVE  SameKey(s, r)
BY DEF SameKey

OneRowPerKey ==
  \A c, d \in Calls : \A t \in inserted[c], u \in inserted[d] :
    SameKey(Row(t), Row(u)) => c = d /\ t = u
NewKeysOnly  == \A c \in Calls : \A t \in inserted[c], s \in snapshots : ~ SameKey(Row(t), s)
AllInserting == \A c \in Calls : Writing(c) => Inserting(c)

\* A step of a call that inserts nothing.
LEMMA KeysSteady ==
  ASSUME Shape, Keys, NEW c \in Calls, Kind(c), inserted'[c] = inserted[c] \/ inserted'[c] = {},
         snapshots' = snapshots \/ Commits(c), Writing(c)' => Inserting(c)'
  PROVE  Keys'
<1>1. /\ Forward(c) /\ \A d \in Calls \ {c} : Writing(d)' <=> Writing(d)
      /\ Functions /\ OneRowPerKey /\ NewKeysOnly /\ AllInserting
  BY KindsStart DEF Shape, Keys, OneRowPerKey, NewKeysOnly, AllInserting
<1>2. \A d \in Calls : inserted'[d] \subseteq inserted[d]
  BY <1>1 DEF Forward, OnlyCall
<1>3. ASSUME NEW d \in Calls, NEW t \in inserted[d] PROVE Row(t)' = Row(t)
  BY <1>1, InsertedAreTicks, RowsStay
<1>4. OneRowPerKey'
  <2>1. ASSUME NEW a \in Calls, NEW d \in Calls, NEW t \in inserted'[a], NEW u \in inserted'[d],
               SameKey(Row(t), Row(u))'
        PROVE  a = d /\ t = u
    <3>1. t \in inserted[a] /\ u \in inserted[d]
      BY <1>2
    <3>2. SameKey(Row(t), Row(u))
      BY <1>3, <2>1, <3>1 DEF SameKey
    <3> QED
      BY <1>1, <3>1, <3>2 DEF OneRowPerKey
  <2> QED
    BY <2>1 DEF OneRowPerKey
<1>5. NewKeysOnly'
  <2>1. ASSUME NEW d \in Calls, NEW t \in inserted'[d], NEW s \in snapshots', SameKey(Row(t)', s)
        PROVE  FALSE
    <3>1. t \in inserted[d] /\ SameKey(Row(t), s)
      BY <1>2, <1>3, <2>1
    <3>2. s \notin snapshots
      BY <1>1, <3>1 DEF NewKeysOnly
    <3>3. Commits(c) /\ s \in RowsOf(inserted[c]) /\ inserted'[c] = {}
      BY <3>2 DEF Commits, Ended
    <3>4. PICK u \in inserted[c] : s = Row(u)
      BY <3>3 DEF RowsOf
    <3>5. d = c
      BY <1>1, <3>1, <3>4 DEF OneRowPerKey
    <3> QED
      BY <2>1, <3>3, <3>5
  <2>2. \A d \in Calls : \A t \in inserted'[d], s \in snapshots' : ~ SameKey(Row(t)', s)
    BY <2>1
  <2> QED
    BY <2>2 DEF NewKeysOnly, SameKey
<1>6. AllInserting'
  <2>1. ASSUME NEW d \in Calls, Writing(d)', d # c PROVE Inserting(d)'
    <3>1. Inserting(d)
      BY <1>1, <2>1 DEF AllInserting
    <3>2. snapshots \subseteq snapshots'
      BY DEF Commits
    <3>3. /\ batch'[d] = batch[d] /\ inserted'[d] = inserted[d] /\ req'[d] = req[d]
          /\ pc'[d] = pc[d] /\ todo'[d] = todo[d]
      BY <1>1, <2>1 DEF Forward, OnlyCall
    <3> QED
      BY <1>1, <3>1, <3>2, <3>3, InsertingStays
  <2> QED
    BY <2>1 DEF AllInserting
<1> QED
  BY <1>4, <1>5, <1>6 DEF Keys, OneRowPerKey, NewKeysOnly, AllInserting

\* A call that comes to its INSERT has inserted nothing and passed nothing over.
LEMMA BeginsInserting ==
  ASSUME NEW c, pc'[c] = "insert", inserted'[c] = {}, todo'[c] = DOMAIN batch'[c]
  PROVE  Inserting(c)'
<1>1. Passed(c)' = {}
  BY DEF Passed
<1> QED
  BY <1>1 DEF Inserting

\* A row that goes in has a key of its own; one that is passed over is covered.
LEMMA KeysInsert ==
  ASSUME Shape, Keys, NEW c \in Calls, Inserts(c)
  PROVE  Keys'
<1>1. /\ Forward(c) /\ Functions /\ OneRowPerKey /\ NewKeysOnly /\ AllInserting
      /\ \A d \in Calls \ {c} : Writing(d)' <=> Writing(d)
  BY KindsStart DEF Kind, Shape, Keys, OneRowPerKey, NewKeysOnly, AllInserting
<1>2. PICK t : t = Item(c)
  OBVIOUS
<1>3. PICK cur : cur = Current(c)
  OBVIOUS
<1>4. /\ pc[c] = "insert" /\ SameKeyInFlight(c) = {} /\ batch' = batch /\ snapshots' = snapshots
      /\ ~ (Taken(c, t) /\ req[c].op = "record") /\ req'[c] = req[c]
      /\ inserted'[c] = IF Taken(c, t) THEN inserted[c] ELSE inserted[c] \cup {t}
      /\ \/ pc'[c] = "insert" /\ todo'[c] = Left(c)
         \/ Left(c) = {} /\ pc'[c] # "insert"
  BY <1>2, <1>1 DEF Inserts, RowStep, Moved, TablesSame, postgres, Forward, Shape, CallOK, Hands
<1>5. /\ cur \in todo[c] /\ cur \in DOMAIN batch[c] /\ \A j \in todo[c] : cur <= j
      /\ t = batch[c][cur] /\ t \in Ticks(c) /\ t \in Calls /\ (req[c].op = "record" => t = c)
      /\ todo[c] \subseteq DOMAIN batch[c] /\ DOMAIN batch[c] \subseteq Nat
      /\ Left(c) = todo[c] \ {cur}
  BY <1>1, <1>2, <1>3, <1>4, ItemIsTick DEF Looping, Left, Shape, CallOK, Hands, Functions
<1>6. Writing(c) /\ Inserting(c)
  BY <1>1 DEF Inserts, AllInserting
<1>7. \A d \in Calls : \A u \in Ticks(d) : Row(u)' = Row(u)
  BY <1>1, RowsStay
<1>8. \A d \in Calls \ {c} : inserted'[d] = inserted[d]
  BY <1>1 DEF Forward, OnlyCall
<1>9. \A d \in Calls : \A u \in inserted'[d] : Row(u)' = Row(u)
  BY <1>4, <1>5, <1>7, <1>8, InsertedAreTicks
<1>10. ASSUME ~ Taken(c, t)
       PROVE  /\ \A s \in snapshots : ~ SameKey(Row(t), s)
              /\ \A d \in Calls : \A u \in inserted[d] :
                   ~ SameKey(Row(t), Row(u)) /\ ~ SameKey(Row(u), Row(t))
  <2>1. \A s \in snapshots : ~ SameKey(Row(t), s)
    BY <1>10, SameKeyTurns DEF Taken
  <2>2. ASSUME NEW d \in Calls, NEW u \in inserted[d] PROVE ~ SameKey(Row(u), Row(t))
    BY <1>2, <1>4, <1>10 DEF Taken, SameKeyInFlight
  <2> QED
    BY <2>1, <2>2, SameKeyTurns
<1>11. OneRowPerKey'
  <2>1. ASSUME NEW a \in Calls, NEW d \in Calls, NEW x \in inserted'[a], NEW u \in inserted'[d],
               SameKey(Row(x), Row(u))'
        PROVE  a = d /\ x = u
    <3>1. SameKey(Row(x), Row(u))
      BY <1>9, <2>1 DEF SameKey
    <3>2. CASE x \in inserted[a] /\ u \in inserted[d]
      BY <1>1, <3>1, <3>2 DEF OneRowPerKey
    <3>3. CASE x \notin inserted[a]
      <4>1. a = c /\ x = t /\ ~ Taken(c, t)
        BY <1>4, <1>8, <3>3
      <4>2. u \notin inserted[d]
        BY <1>10, <3>1, <4>1
      <4> QED
        BY <1>4, <1>8, <4>1, <4>2
    <3>4. CASE u \notin inserted[d]
      <4>1. d = c /\ u = t /\ ~ Taken(c, t)
        BY <1>4, <1>8, <3>4
      <4>2. x \notin inserted[a]
        BY <1>10, <3>1, <4>1
      <4> QED
        BY <1>4, <1>8, <4>1, <4>2
    <3> QED
      BY <3>2, <3>3, <3>4
  <2> QED
    BY <2>1 DEF OneRowPerKey
<1>12. NewKeysOnly'
  <2>1. ASSUME NEW d \in Calls, NEW u \in inserted'[d], NEW s \in snapshots
        PROVE  ~ SameKey(Row(u), s)
    <3>1. CASE u \in inserted[d]
      BY <1>1, <3>1 DEF NewKeysOnly
    <3>2. CASE u \notin inserted[d]
      BY <1>4, <1>8, <1>10, <3>2
    <3> QED
      BY <3>1, <3>2
  <2>2. \A d \in Calls : \A u \in inserted'[d], s \in snapshots' : ~ SameKey(Row(u), s)'
    BY <1>4, <1>9, <2>1 DEF SameKey
  <2> QED
    BY <2>2 DEF NewKeysOnly
<1>13. Inserting(c)'
  <2>1. /\ Passed(c) = DOMAIN batch[c] \ todo[c] /\ Passed(c)' = Passed(c) \cup {cur}
    BY <1>4, <1>5 DEF Passed
  <2>2. inserted[c] \subseteq inserted'[c] /\ inserted'[c] \subseteq inserted[c] \cup {t}
    BY <1>4
  <2>3. \A i \in Passed(c) : i < cur
    BY <1>4, <1>5, <1>6 DEF Inserting
  <2>4. ASSUME NEW i \in Passed(c)', NEW j \in todo'[c], pc'[c] = "insert" PROVE i < j
    <3>1. j \in todo[c] /\ j # cur
      BY <1>4, <1>5, <2>4
    <3>2. cur < j
      BY <1>5, <3>1
    <3> QED
      BY <1>4, <1>5, <1>6, <2>1, <3>1, <3>2 DEF Inserting
  <2>5. \A u \in inserted'[c] : \E i \in Passed(c)' : batch'[c][i] = u
    BY <1>4, <1>5, <1>6, <2>1, <2>2 DEF Inserting
  <2>6. \A i \in DOMAIN batch[c] : batch[c][i] \in Ticks(c) /\ Row(batch[c][i])' = Row(batch[c][i])
    BY <1>4, <1>7 DEF Ticks
  <2>7. ASSUME NEW i \in Passed(c), Covered(c, i) PROVE Covered(c, i)'
    BY <1>4, <2>1, <2>2, <2>6, <2>7 DEF Covered, Passed
  <2>8. Covered(c, cur)'
    <3>1. CASE ~ Taken(c, t)
      BY <1>4, <1>5, <3>1 DEF Covered
    <3>2. CASE \E s \in snapshots : SameKey(s, Row(t))
      BY <1>4, <1>5, <2>6, <3>2 DEF Covered
    <3>3. CASE \E u \in inserted[c] : SameKey(Row(u), Row(t))
      <4>1. PICK u \in inserted[c] : SameKey(Row(u), Row(t))
        BY <3>3
      <4>2. PICK j \in Passed(c) : batch[c][j] = u
        BY <1>6 DEF Inserting
      <4>3. j \in DOMAIN batch[c] /\ j < cur /\ j \in Passed(c)'
        BY <2>1, <2>3
      <4>4. Row(batch[c][j])' = Row(u) /\ Row(batch[c][cur])' = Row(t)
        BY <1>5, <2>6, <4>2, <4>3
      <4> QED
        BY <1>4, <2>2, <4>1, <4>2, <4>3, <4>4 DEF Covered
    <3> QED
      BY <3>1, <3>2, <3>3 DEF Taken
  <2>9. req'[c].op = "record" => c \in inserted'[c]
    BY <1>4, <1>5
  <2> QED
    BY <1>6, <2>1, <2>4, <2>5, <2>7, <2>8, <2>9 DEF Inserting
<1>14. AllInserting'
  <2>1. ASSUME NEW d \in Calls, Writing(d)', d # c PROVE Inserting(d)'
    <3>1. Inserting(d)
      BY <1>1, <2>1 DEF AllInserting
    <3>2. /\ batch'[d] = batch[d] /\ inserted'[d] = inserted[d] /\ req'[d] = req[d]
          /\ pc'[d] = pc[d] /\ todo'[d] = todo[d]
      BY <1>1, <2>1 DEF Forward, OnlyCall
    <3> QED
      BY <1>1, <1>4, <3>1, <3>2, InsertingStays
  <2> QED
    BY <1>13, <2>1 DEF AllInserting
<1> QED
  BY <1>11, <1>12, <1>14 DEF Keys, OneRowPerKey, NewKeysOnly, AllInserting

LEMMA KeysHolds == Spec => []Keys
<1>1. ASSUME Init PROVE Keys
  <2>1. \A c \in Calls : inserted[c] = {} /\ ~ Writing(c)
    BY <1>1 DEF Init, Writing, Looping
  <2> QED
    BY <2>1 DEF Keys
<1>2. ASSUME Shape, Keys, [Next]_vars PROVE Keys'
  <2>1. CASE CallsRest
    <3>1. UNCHANGED <<snapshots, req, pc, inserted, batch, todo>>
      BY <2>1 DEF CallsRest, work
    <3>2. \A t : Row(t)' = Row(t)
      BY <3>1 DEF Row
    <3>3. \A c \in Calls : /\ Passed(c)' = Passed(c) /\ (Writing(c)' <=> Writing(c))
                         /\ Passed(c) \subseteq DOMAIN batch[c]
      BY <3>1 DEF Passed, Writing
    <3>4. \A c \in Calls : \A i \in Passed(c) : Covered(c, i) => Covered(c, i)'
      BY <3>1, <3>2, <3>3 DEF Covered
    <3>5. \A c \in Calls : Inserting(c) => Inserting(c)'
      BY <3>1, <3>3, <3>4 DEF Inserting
    <3> QED
      BY <1>2, <3>1, <3>2, <3>3, <3>5 DEF Keys
  <2>2. ASSUME NEW c \in Calls, Kind(c) PROVE Keys'
    <3>1. Forward(c) /\ Hands(c) /\ Functions /\ Shape'
      BY <1>2, <2>2, KindsStart, NextKinds DEF Shape, CallOK
    <3>2. Writing(c) => Inserting(c)
      BY <1>2 DEF Keys
    <3>3. CASE Inserts(c)
      BY <1>2, <3>3, KeysInsert
    <3>4. CASE Light(c)
      BY <1>2, <2>2, <3>4, KeysSteady DEF Light, TablesSame, postgres
    <3>5. CASE Leaves(c) \/ Pushes(c)
      <4>1. ~ Writing(c)' /\ inserted'[c] = {} /\ snapshots' = snapshots
        BY <3>5 DEF Leaves, Pushes, Ended, Writing, Looping, postgres
      <4> QED
        BY <1>2, <2>2, <4>1, KeysSteady
    <3>6. CASE Commits(c)
      <4>1. ~ Writing(c)' /\ inserted'[c] = {}
        BY <3>6 DEF Commits, Ended, Writing, Looping
      <4> QED
        BY <1>2, <2>2, <3>6, <4>1, KeysSteady
    <3>7. CASE Begins(c)
      <4>1. /\ pc'[c] = "insert" /\ inserted'[c] = {} /\ todo'[c] = {1} /\ batch'[c] = <<c>>
            /\ snapshots' = snapshots
        BY <3>7 DEF Begins, Moved, TablesSame, postgres
      <4>2. todo'[c] = DOMAIN batch'[c]
        BY <4>1
      <4> QED
        BY <1>2, <2>2, <4>1, <4>2, BeginsInserting, KeysSteady
    <3>8. CASE Pops(c)
      <4>1. snapshots' = snapshots /\ inserted'[c] = {}
        BY <3>8 DEF Pops, postgres, Ended
      <4>2. CASE pc'[c] = "done"
        <5>1. ~ Writing(c)'
          BY <4>2 DEF Writing, Looping
        <5> QED
          BY <1>2, <2>2, <4>1, <5>1, KeysSteady
      <4>3. CASE pc'[c] # "done"
        <5>1. pc'[c] = "insert" /\ todo'[c] = 1 .. PopSize /\ batch'[c] = Front
          BY <3>8, <4>3 DEF Pops, Moved, Ended
        <5>2. DOMAIN Front = 1 .. PopSize
          BY <1>2, PopFacts DEF Shape, Tables
        <5>3. todo'[c] = DOMAIN batch'[c]
          BY <5>1, <5>2
        <5> QED
          BY <1>2, <2>2, <4>1, <5>1, <5>3, BeginsInserting, KeysSteady
      <4> QED
        BY <4>2, <4>3
    <3>9. CASE Refers(c) \/ Applies(c)
      <4>1. /\ Writing(c) /\ inserted' = inserted /\ batch' = batch /\ snapshots' = snapshots
            /\ pc[c] # "insert" /\ pc'[c] # "insert" /\ req'[c] = req[c]
        BY <3>1, <3>9 DEF Refers, Applies, Moved, TablesSame, postgres, Forward
      <4>2. Inserting(c)'
        BY <1>2, <3>1, <3>2, <4>1, InsertingStays
      <4> QED
        BY <1>2, <2>2, <4>1, <4>2, KeysSteady
    <3> QED
      BY <2>2, <3>3, <3>4, <3>5, <3>6, <3>7, <3>8, <3>9 DEF Kind
  <2> QED
    BY <1>2, <2>1, <2>2, NextKinds
<1> QED
  BY <1>1, <1>2, ShapeHolds, PTL DEF Spec

-----------------------------------------------------------------------------
(* The cached prices. *)

LEMMA NewestFacts ==
  ASSUME Shape, NEW c \in Calls, NEW i \in DOMAIN batch[c]
  PROVE  \E k \in DOMAIN batch[c] :
           /\ NewestLike(batch[c], i) = batch[c][k] /\ batch[c][k] \in Ticks(c)
           /\ Row(batch[c][k]).outcome = Row(batch[c][i]).outcome
           /\ \A j \in Like(batch[c], i) : AtLeastAsNew(batch[c], k, j)
<1>1. batch[c] \in Seq(Calls)
  BY DEF Shape, Functions
<1>2. \A j \in DOMAIN batch[c] : batch[c][j] \in Ticks(c) /\ Row(batch[c][j]).at \in Nat
  BY KnownFields DEF Shape, CallOK, Hands, Ticks
<1>3. PICK k \in Like(batch[c], i) : /\ NewestLike(batch[c], i) = batch[c][k]
                                     /\ \A j \in Like(batch[c], i) : AtLeastAsNew(batch[c], k, j)
  BY <1>1, <1>2, NewestOfLike
<1> QED
  BY <1>2, <1>3 DEF Like

\* Which ticks of a batch are the first and the newest of their outcome stays what
\* it is.
LEMMA NewestSame ==
  ASSUME Shape, NEW d \in Calls, batch'[d] = batch[d], \A t \in Ticks(d) : Row(t)' = Row(t)
  PROVE  /\ FirstOnes(batch[d])' = FirstOnes(batch[d])
         /\ \A i \in DOMAIN batch[d] : NewestLike(batch[d], i)' = NewestLike(batch[d], i)
<1>1. PICK b : b = batch[d]
  OBVIOUS
<1>2. \A j \in DOMAIN b : Row(b[j])' = Row(b[j]) /\ Row(b[j]).at \in Nat
  BY <1>1, KnownFields DEF Ticks, Shape, CallOK, Hands
<1>3. b \in Seq(Calls) /\ DOMAIN b \subseteq Nat
  BY <1>1 DEF Shape, Functions
<1>4. \A i \in DOMAIN b : Like(b, i)' = Like(b, i)
  BY <1>2 DEF Like
<1>5. FirstOnes(b)' = FirstOnes(b)
  BY <1>4 DEF FirstOnes
<1>6. ASSUME NEW i \in DOMAIN b PROVE NewestLike(b, i)' = NewestLike(b, i)
  <2>1. PICK k \in Like(b, i) : /\ NewestLike(b, i) = b[k]
                                /\ \A j \in Like(b, i) : AtLeastAsNew(b, k, j)
    BY <1>2, <1>3, NewestOfLike
  <2>2. Like(b, i) \subseteq DOMAIN b
    BY DEF Like
  <2>3. \A x, y \in Like(b, i) : AtLeastAsNew(b, x, y)' <=> AtLeastAsNew(b, x, y)
    BY <1>2, <2>2 DEF AtLeastAsNew
  <2>4. \A x \in Like(b, i) : (\A j \in Like(b, i) : AtLeastAsNew(b, x, j)) => x = k
    BY <1>2, <1>3, <2>1, <2>2 DEF AtLeastAsNew
  <2>5. \A x \in Like(b, i)' : (\A j \in Like(b, i)' : AtLeastAsNew(b, x, j)') => x = k
    BY <1>4, <2>3, <2>4
  <2>6. k \in Like(b, i)' /\ \A j \in Like(b, i)' : AtLeastAsNew(b, k, j)'
    BY <1>4, <2>1, <2>3
  <2> QED
    BY <2>1, <2>5, <2>6 DEF NewestLike
<1> QED
  BY <1>1, <1>5, <1>6

LEMMA NewestStays ==
  ASSUME Shape, NEW c \in Calls, Forward(c), NEW d \in Calls, batch'[d] = batch[d]
  PROVE  /\ FirstOnes(batch[d])' = FirstOnes(batch[d])
         /\ \A i \in DOMAIN batch[d] : NewestLike(batch[d], i)' = NewestLike(batch[d], i)
BY RowsStay, NewestSame

LEMMA ConflictTurns ==
  ASSUME NEW l, NEW m, Conflict(l, m)
  PROVE  Conflict(m, l)
BY DEF Conflict

\* Locks are only taken that nobody's stand in the way of.
LEMMA LocksStay ==
  ASSUME Shape, Exclusive(held), NEW c \in Calls, Kind(c)
  PROVE  Exclusive(held')
<1>1. DOMAIN held = Calls /\ DOMAIN held' = Calls /\ \A d \in Calls \ {c} : held'[d] = held[d]
  BY KindsStart DEF Shape, Functions, Forward, OnlyCall
<1>2. \/ held'[c] = held[c] \/ held'[c] = {}
      \/ Granted(c) /\ held'[c] = held[c] \cup Wanted(c)
  BY <1>1 DEF Kind, Light, Begins, Inserts, Refers, Applies, Leaves, Pushes, Pops, Commits, RowStep, Ended
<1>3. ASSUME NEW d \in Calls, d # c, NEW l \in held'[c], NEW m \in held'[d], Conflict(l, m)
      PROVE  FALSE
  <2>1. m \in held[d]
    BY <1>1, <1>3
  <2>2. l \notin held[c]
    BY <1>1, <1>3, <2>1 DEF Exclusive
  <2>3. Granted(c) /\ l \in Wanted(c)
    BY <1>2, <1>3, <2>2
  <2> QED
    BY <1>1, <1>3, <2>1, <2>3 DEF Granted, Holders
<1>4. ASSUME NEW a \in Calls, NEW d \in Calls, a # d, NEW l \in held'[a], NEW m \in held'[d]
      PROVE  ~ Conflict(l, m)
  <2>1. CASE a = c
    BY <1>3, <1>4, <2>1
  <2>2. CASE d = c
    BY <1>3, <1>4, <2>2, ConflictTurns
  <2>3. CASE a # c /\ d # c
    BY <1>1, <1>4, <2>3 DEF Exclusive
  <2> QED
    BY <2>1, <2>2, <2>3
<1> QED
  BY <1>1, <1>4 DEF Exclusive

AllRolling == \A c \in Calls : Writing(c) /\ pc[c] \in {"apply", "commit"} => Rolling(c)

\* What a rolled tick needs not to be in the way of.
RollsSame(d) ==
  \A i \in Applied(d) : RollsForward(NewestLike(batch[d], i))' <=> RollsForward(NewestLike(batch[d], i))

LEMMA RollingStays ==
  ASSUME Shape, NEW c \in Calls, Forward(c), NEW d \in Calls, d # c, Rolling(d), RollsSame(d)
  PROVE  Rolling(d)'
<1>1. /\ batch'[d] = batch[d] /\ todo'[d] = todo[d] /\ rolled'[d] = rolled[d] /\ held'[d] = held[d]
  BY DEF Forward, OnlyCall
<1>2. /\ FirstOnes(batch[d])' = FirstOnes(batch[d])
      /\ \A i \in DOMAIN batch[d] : NewestLike(batch[d], i)' = NewestLike(batch[d], i)
  BY <1>1, NewestStays
<1>3. Applied(d)' = Applied(d) /\ Applied(d) \subseteq DOMAIN batch[d]
  BY <1>1, <1>2 DEF Applied, FirstOnes
<1>4. \A t \in rolled[d] : UpdateLock(Row(t).outcome)' = UpdateLock(Row(t).outcome)
  BY InsertedAreTicks, RowsStay DEF UpdateLock
<1>5. \A i \in Applied(d) :
        NewestLike(batch[d], i)' \in rolled'[d] <=> RollsForward(NewestLike(batch[d], i))'
  BY <1>1, <1>2, <1>3 DEF Rolling, RollsSame
<1> QED
  BY <1>1, <1>2, <1>3, <1>4, <1>5 DEF Rolling

LEMMA RollsAsBefore ==
  ASSUME Shape, NEW c \in Calls, Forward(c), latest' = latest, NEW d \in Calls, batch'[d] = batch[d]
  PROVE  RollsSame(d)
<1>1. ASSUME NEW i \in Applied(d)
      PROVE  RollsForward(NewestLike(batch[d], i))' <=> RollsForward(NewestLike(batch[d], i))
  <2>1. i \in DOMAIN batch[d]
    BY DEF Applied, FirstOnes
  <2>2. NewestLike(batch[d], i)' = NewestLike(batch[d], i)
    BY <2>1, NewestStays
  <2>3. NewestLike(batch[d], i) \in Ticks(d)
    BY <2>1, NewestFacts
  <2>4. PICK t \in Ticks(d) : t = NewestLike(batch[d], i)
    BY <2>3
  <2>5. Row(t)' = Row(t)
    BY RowsStay
  <2>6. RollsForward(t)' <=> RollsForward(t)
    BY <2>5 DEF RollsForward
  <2>7. RollsForward(NewestLike(batch[d], i))' <=> RollsForward(t)'
    BY <2>2, <2>4 DEF RollsForward, Row
  <2> QED
    BY <2>4, <2>6, <2>7
<1> QED
  BY <1>1 DEF RollsSame

\* The loop over the newest ticks sets one more price, or finds it is not newer.
LEMMA RollingApplies ==
  ASSUME Shape, NEW c \in Calls, Applies(c), Rolling(c)
  PROVE  Rolling(c)'
<1>1. /\ Forward(c) /\ batch' = batch /\ latest' = latest /\ pc[c] = "apply" /\ Functions
  BY DEF Applies, Moved, TablesSame, postgres, Shape
<1>2. PICK t : t = Item(c)
  OBVIOUS
<1>3. PICK cur : cur = Current(c)
  OBVIOUS
<1>4. /\ cur \in todo[c] /\ cur \in DOMAIN batch[c] /\ t = NewestLike(batch[c], cur)
      /\ t \in Ticks(c) /\ Left(c) = todo[c] \ {cur}
  BY <1>1, <1>2, <1>3, ItemIsTick DEF Looping, Left
<1>5. /\ rolled'[c] = IF RollsForward(t) THEN rolled[c] \cup {t} ELSE rolled[c]
      /\ todo'[c] = Left(c) /\ held'[c] = held[c] \cup Wanted(c)
  BY <1>1, <1>2 DEF Applies, Functions
<1>6. /\ FirstOnes(batch[c])' = FirstOnes(batch[c])
      /\ \A i \in DOMAIN batch[c] : NewestLike(batch[c], i)' = NewestLike(batch[c], i)
  BY <1>1, NewestStays
<1>7. /\ Applied(c)' = Applied(c) \cup {cur} /\ Applied(c)' \subseteq DOMAIN batch[c]
      /\ todo'[c] \subseteq FirstOnes(batch[c])'
  BY <1>1, <1>4, <1>5, <1>6 DEF Applied, Rolling, FirstOnes
<1>8. \A x \in rolled'[c] : \E i \in Applied(c)' : x = NewestLike(batch[c], i)'
  BY <1>4, <1>5, <1>6, <1>7 DEF Rolling
<1>9. \A x \in Ticks(c) : Row(x)' = Row(x)
  BY <1>1, RowsStay
<1>10. ASSUME NEW x \in rolled'[c] PROVE UpdateLock(Row(x).outcome)' \in held'[c]
  <2>1. CASE x \in rolled[c]
    BY <1>5, <1>9, <2>1, InsertedAreTicks DEF Rolling, UpdateLock
  <2>2. CASE x \notin rolled[c]
    <3>1. x = t /\ RollsForward(t)
      BY <1>5, <2>2
    <3>2. Wanted(c) = NoKeyUpdate("outcome", {Row(t).outcome})
      BY <1>1, <1>2, <3>1 DEF Wanted
    <3> QED
      BY <1>4, <1>5, <1>9, <3>1, <3>2 DEF NoKeyUpdate, UpdateLock
  <2> QED
    BY <2>1, <2>2
<1>11. ASSUME NEW i \in Applied(c)'
       PROVE  NewestLike(batch[c], i) \in rolled'[c] <=> RollsForward(NewestLike(batch[c], i))
  BY <1>4, <1>5, <1>7 DEF Rolling
<1>12. ASSUME NEW i \in Applied(c)'
       PROVE  NewestLike(batch[c], i)' \in rolled'[c] <=> RollsForward(NewestLike(batch[c], i))'
  <2>1. i \in DOMAIN batch[c] /\ NewestLike(batch[c], i)' = NewestLike(batch[c], i)
    BY <1>6, <1>7
  <2>2. PICK x \in Ticks(c) : x = NewestLike(batch[c], i)
    BY <2>1, NewestFacts
  <2>3. RollsForward(x)' <=> RollsForward(x)
    BY <1>1, <1>9 DEF RollsForward
  <2>4. RollsForward(NewestLike(batch[c], i))' <=> RollsForward(x)'
    BY <2>1, <2>2 DEF RollsForward, Row
  <2> QED
    BY <1>11, <2>1, <2>2, <2>3, <2>4
<1> QED
  BY <1>7, <1>8, <1>10, <1>12 DEF Rolling

\* A transaction that comes to that loop has set none.
LEMMA RollingBegins ==
  ASSUME NEW c, todo'[c] = FirstOnes(batch[c])', rolled'[c] = {}
  PROVE  Rolling(c)'
<1>1. Applied(c)' = {}
  BY DEF Applied
<1> QED
  BY <1>1 DEF Rolling

\* What a commit does to the price of one outcome.
Moves(c, o) ==
  \E t \in rolled[c] :
    /\ Row(t).outcome = o /\ latest'[o] = Row(t) /\ RollsForward(t) /\ UpdateLock(o) \in held[c]
    /\ \E i \in FirstOnes(batch[c]) : t = NewestLike(batch[c], i)

LEMMA CommitMoves ==
  ASSUME Shape, NEW c \in Calls, Commits(c), Rolling(c), NEW o \in Outcomes
  PROVE  /\ todo[c] = {} /\ Applied(c) = FirstOnes(batch[c])
         /\ \/ Moves(c, o)
            \/ (\A t \in rolled[c] : Row(t).outcome # o) /\ latest'[o] = latest[o]
<1>1. todo[c] = {}
  BY DEF Commits, Shape, CallOK, Hands, Looping
<1>2. Applied(c) = FirstOnes(batch[c])
  BY <1>1 DEF Applied
<1>3. latest'[o] = IF \E t \in rolled[c] : Row(t).outcome = o
                     THEN Row(CHOOSE t \in rolled[c] : Row(t).outcome = o) ELSE latest[o]
  BY DEF Commits
<1>4. CASE \E t \in rolled[c] : Row(t).outcome = o
  <2>1. PICK t \in rolled[c] : Row(t).outcome = o /\ latest'[o] = Row(t)
    BY <1>3, <1>4
  <2>2. PICK i \in Applied(c) : t = NewestLike(batch[c], i)
    BY DEF Rolling
  <2>3. RollsForward(t) /\ UpdateLock(o) \in held[c]
    BY <2>1, <2>2 DEF Rolling
  <2> QED
    BY <1>1, <1>2, <2>1, <2>2, <2>3 DEF Moves
<1>5. CASE ~ \E t \in rolled[c] : Row(t).outcome = o
  BY <1>1, <1>2, <1>3, <1>5
<1> QED
  BY <1>4, <1>5

\* The prices another transaction has set and has not committed are of outcomes
\* whose rows it has locked; of the others, the prices only move forward.
LEMMA CommitRolls ==
  ASSUME Shape, Exclusive(held), NEW c \in Calls, Commits(c), Rolling(c),
         NEW d \in Calls, d # c, Rolling(d)
  PROVE  RollsSame(d)
<1>1. Forward(c) /\ batch'[d] = batch[d] /\ DOMAIN held = Calls
  BY DEF Commits, Ended, Shape, Functions
<1>2. ASSUME NEW i \in Applied(d)
      PROVE  RollsForward(NewestLike(batch[d], i))' <=> RollsForward(NewestLike(batch[d], i))
  <2>1. i \in DOMAIN batch[d]
    BY DEF Applied, FirstOnes
  <2>2. NewestLike(batch[d], i)' = NewestLike(batch[d], i)
    BY <1>1, <2>1, NewestStays
  <2>3. PICK t \in Ticks(d) : t = NewestLike(batch[d], i)
    BY <2>1, NewestFacts
  <2>4. Row(t)' = Row(t) /\ Row(t).outcome \in Outcomes /\ Row(t).at \in Nat
    BY <1>1, RowsStay, KnownFields
  <2>5. PICK o \in Outcomes : o = Row(t).outcome
    BY <2>4
  <2>6. t \in rolled[d] <=> RollsForward(t)
    BY <2>3 DEF Rolling
  <2>7. RollsForward(t)' <=> RollsForward(t)
    <3>1. CASE latest'[o] = latest[o]
      BY <2>4, <2>5, <3>1 DEF RollsForward
    <3>2. CASE Moves(c, o)
      <4>1. PICK u \in rolled[c] : /\ Row(u).outcome = o /\ latest'[o] = Row(u) /\ RollsForward(u)
                                   /\ UpdateLock(o) \in held[c]
        BY <3>2 DEF Moves
      <4>2. KnownTick(u) /\ Row(u).at \in Nat /\ Row(u) # None
        BY <1>1, <4>1, InsertedAreTicks, RowsStay, KnownFields
      <4>3. t \notin rolled[d]
        <5>1. ASSUME UpdateLock(o) \in held[d] PROVE FALSE
          <6>1. ~ Conflict(UpdateLock(o), UpdateLock(o))
            BY <1>1, <4>1, <5>1 DEF Exclusive
          <6> QED
            BY <6>1 DEF Conflict, UpdateLock
        <5> QED
          BY <2>5, <5>1 DEF Rolling
      <4>4. ~ RollsForward(t)
        BY <2>6, <4>3
      <4>5. latest[o] # None /\ ~ (latest[o].at < Row(t).at)
        BY <2>5, <4>4 DEF RollsForward
      <4>6. latest[o].at < Row(u).at
        BY <4>1, <4>5 DEF RollsForward
      <4>7. latest[o].at \in Nat
        BY <4>5, FeedAssumption DEF Shape, Tables, Snapshot
      <4>8. ~ (latest'[o].at < Row(t).at) /\ latest'[o] # None
        BY <2>4, <4>1, <4>2, <4>5, <4>6, <4>7
      <4> QED
        BY <2>4, <2>5, <4>4, <4>8 DEF RollsForward
    <3> QED
      BY <3>1, <3>2, CommitMoves
  <2>8. RollsForward(NewestLike(batch[d], i))' <=> RollsForward(t)'
    BY <2>2, <2>3 DEF RollsForward, Row
  <2> QED
    BY <2>3, <2>7, <2>8
<1> QED
  BY <1>2 DEF RollsSame

\* The newest tick of an outcome that a transaction commits is among its rows
\* where it has set the price: what could have kept it out is older.
LEMMA CommitInStep ==
  ASSUME Shape, LatestInStep, NEW c \in Calls, Commits(c), Rolling(c), Inserting(c)
  PROVE  LatestInStep'
<1>1. /\ Forward(c) /\ pc[c] = "commit" /\ snapshots' = snapshots \cup RowsOf(inserted[c])
      /\ Passed(c) = DOMAIN batch[c]
  BY DEF Commits, Ended, Passed
<1>2. SUFFICES ASSUME NEW o \in Outcomes \ {s.outcome : s \in SeedSnapshots}
               PROVE  LET rows == {s \in snapshots' : s.outcome = o}
                      IN  IF rows = {} THEN latest'[o] = None
                          ELSE latest'[o] \in rows /\ \A s \in rows : s.at <= latest'[o].at
  BY DEF LatestInStep
<1> DEFINE rows == {s \in snapshots : s.outcome = o}
           more == {s \in snapshots' : s.outcome = o}
<1>3. /\ latest[o] # None => latest[o] \in rows /\ \A s \in rows : s.at <= latest[o].at
      /\ latest[o] = None => rows = {}
      /\ latest[o] # None => latest[o].at \in Nat
      /\ \A s \in rows : s.at \in Nat /\ s # None
  <2>1. \A s \in snapshots : s \in Snapshot /\ s.at \in Nat /\ s # None
    BY FeedAssumption DEF Shape, Tables, Snapshot
  <2>2. IF rows = {} THEN latest[o] = None
                     ELSE latest[o] \in rows /\ \A s \in rows : s.at <= latest[o].at
    BY DEF LatestInStep
  <2> QED
    BY <2>1, <2>2
<1>4. \A i \in DOMAIN batch[c] : /\ Row(batch[c][i]).at \in Nat /\ Row(batch[c][i]) # None
                                 /\ i \in Nat
  BY <1>1, RowsStay, KnownFields DEF Ticks, Shape, Functions
<1>5. \A s : s \in more <=> s \in rows \/ \E u \in inserted[c] : s = Row(u) /\ Row(u).outcome = o
  BY <1>1 DEF RowsOf
<1>6. ASSUME NEW u \in inserted[c], Row(u).outcome = o
      PROVE  \E i \in FirstOnes(batch[c]), k, j \in DOMAIN batch[c] :
               /\ batch[c][j] = u /\ NewestLike(batch[c], i) = batch[c][k]
               /\ Row(batch[c][k]).outcome = o /\ Row(u).at <= Row(batch[c][k]).at
  <2>1. PICK j \in DOMAIN batch[c] : batch[c][j] = u
    BY <1>1 DEF Inserting
  <2>2. PICK i \in FirstOnes(batch[c]) : j \in Like(batch[c], i)
    BY <2>1, FirstOfLike DEF Shape, Functions
  <2>3. i \in DOMAIN batch[c]
    BY DEF FirstOnes
  <2>4. PICK k \in DOMAIN batch[c] : /\ NewestLike(batch[c], i) = batch[c][k]
                                     /\ Row(batch[c][k]).outcome = Row(batch[c][i]).outcome
                                     /\ \A x \in Like(batch[c], i) : AtLeastAsNew(batch[c], k, x)
    BY <2>3, NewestFacts
  <2>5. Row(batch[c][i]).outcome = o
    BY <1>6, <2>1, <2>2 DEF Like
  <2>6. Row(batch[c][j]).at <= Row(batch[c][k]).at
    BY <1>4, <2>2, <2>4 DEF AtLeastAsNew
  <2> QED
    BY <2>1, <2>4, <2>5, <2>6
<1>7. CASE Moves(c, o)
  <2>1. PICK t \in rolled[c], i \in FirstOnes(batch[c]) :
          /\ Row(t).outcome = o /\ latest'[o] = Row(t) /\ RollsForward(t)
          /\ t = NewestLike(batch[c], i)
    BY <1>7 DEF Moves
  <2>2. i \in DOMAIN batch[c]
    BY DEF FirstOnes
  <2>3. PICK k \in DOMAIN batch[c] : /\ t = batch[c][k]
                                     /\ Row(batch[c][k]).outcome = Row(batch[c][i]).outcome
                                     /\ \A j \in Like(batch[c], i) : AtLeastAsNew(batch[c], k, j)
    BY <2>1, <2>2, NewestFacts
  <2>4. \A s \in rows : s.at < Row(t).at
    BY <1>3, <1>4, <2>1, <2>3 DEF RollsForward
  <2>5. \A j \in DOMAIN batch[c] : Row(batch[c][j]).outcome = o =>
          Row(batch[c][j]).at <= Row(t).at /\ (Row(batch[c][j]).at = Row(t).at => k <= j)
    BY <1>4, <2>1, <2>3 DEF AtLeastAsNew, Like
  <2>6. t \in inserted[c]
    <3>1. Covered(c, k)
      BY <1>1 DEF Inserting
    <3>2. ~ \E s \in snapshots : SameKey(s, Row(batch[c][k]))
      <4>1. ASSUME NEW s \in snapshots, SameKey(s, Row(t)) PROVE FALSE
        <5>1. s.outcome = o /\ s.at = Row(t).at
          BY <2>1, <4>1 DEF SameKey
        <5>2. s.at < Row(t).at /\ Row(t).at \in Nat
          BY <1>4, <2>3, <2>4, <5>1
        <5> QED
          BY <5>1, <5>2
      <4> QED
        BY <2>3, <4>1
    <3>3. ASSUME NEW j \in DOMAIN batch[c], j < k, SameKey(Row(batch[c][j]), Row(batch[c][k]))
          PROVE  FALSE
      <4>1. Row(batch[c][j]).outcome = o /\ Row(batch[c][j]).at = Row(t).at
        BY <2>1, <2>3, <3>3 DEF SameKey
      <4> QED
        BY <1>4, <2>5, <3>3, <4>1
    <3> QED
      BY <1>1, <2>3, <3>1, <3>2, <3>3 DEF Covered
  <2>7. latest'[o] \in more
    BY <1>5, <2>1, <2>6
  <2>8. ASSUME NEW s \in more PROVE s.at <= latest'[o].at
    <3>1. CASE s \in rows
      BY <1>3, <1>4, <2>1, <2>3, <2>4, <3>1
    <3>2. CASE s \notin rows
      <4>1. PICK u \in inserted[c] : s = Row(u) /\ Row(u).outcome = o
        BY <1>5, <3>2
      <4>2. PICK j \in DOMAIN batch[c] : batch[c][j] = u
        BY <1>1 DEF Inserting
      <4> QED
        BY <2>1, <2>5, <4>1, <4>2
    <3> QED
      BY <3>1, <3>2
  <2> QED
    BY <2>7, <2>8
<1>8. CASE (\A t \in rolled[c] : Row(t).outcome # o) /\ latest'[o] = latest[o]
  <2>1. ASSUME NEW u \in inserted[c], Row(u).outcome = o
        PROVE  latest[o] # None /\ Row(u).at <= latest[o].at
    <3>1. PICK i \in FirstOnes(batch[c]), k, j \in DOMAIN batch[c] :
            /\ batch[c][j] = u /\ NewestLike(batch[c], i) = batch[c][k]
            /\ Row(batch[c][k]).outcome = o /\ Row(u).at <= Row(batch[c][k]).at
      BY <1>6, <2>1
    <3>2. batch[c][k] \notin rolled[c]
      BY <1>8, <3>1
    <3>3. ~ RollsForward(batch[c][k])
      BY <3>1, <3>2, CommitMoves DEF Rolling
    <3> QED
      BY <1>3, <1>4, <3>1, <3>3 DEF RollsForward
  <2>2. CASE latest[o] = None
    BY <1>3, <1>5, <1>8, <2>1, <2>2
  <2>3. CASE latest[o] # None
    <3>1. latest'[o] \in more
      BY <1>3, <1>5, <1>8, <2>3
    <3>2. ASSUME NEW s \in more PROVE s.at <= latest'[o].at
      BY <1>3, <1>5, <1>8, <2>1, <2>3
    <3> QED
      BY <3>1, <3>2
  <2> QED
    BY <2>2, <2>3
<1> QED
  BY <1>7, <1>8, CommitMoves

LEMMA PricingStep ==
  ASSUME Shape, Shape', Keys, Pricing, NEW c \in Calls, Kind(c)
  PROVE  Pricing'
<1>1. /\ Forward(c) /\ Exclusive(held)' /\ LatestInStep /\ AllRolling
      /\ \A d \in Calls \ {c} : Writing(d)' <=> Writing(d)
  BY KindsStart, LocksStay DEF Pricing, AllRolling, Exclusive
<1>2. UNCHANGED <<snapshots, latest>> \/ Commits(c)
  BY DEF Kind, Light, Begins, Inserts, Refers, Applies, Leaves, Pushes, Pops, TablesSame, postgres
<1>3. Commits(c) => Rolling(c) /\ Inserting(c)
  BY <1>1 DEF Commits, AllRolling, Keys
<1>4. LatestInStep'
  <2>1. CASE snapshots' = snapshots /\ latest' = latest
    BY <1>1, <2>1 DEF LatestInStep
  <2>2. CASE Commits(c)
    BY <1>1, <1>3, <2>2, CommitInStep
  <2> QED
    BY <1>2, <2>1, <2>2
<1>5. ASSUME NEW d \in Calls, d # c, Writing(d)', pc'[d] \in {"apply", "commit"} PROVE Rolling(d)'
  <2>1. Writing(d) /\ pc[d] \in {"apply", "commit"} /\ batch'[d] = batch[d]
    BY <1>1, <1>5 DEF Forward, OnlyCall
  <2>2. Rolling(d)
    BY <1>1, <2>1 DEF AllRolling
  <2>3. RollsSame(d)
    BY <1>1, <1>2, <1>3, <1>5, <2>1, <2>2, RollsAsBefore, CommitRolls DEF Pricing
  <2> QED
    BY <1>1, <1>5, <2>2, <2>3, RollingStays
<1>6. ASSUME Writing(c)', pc'[c] \in {"apply", "commit"} PROVE Rolling(c)'
  <2>1. Inserts(c) \/ Refers(c) \/ Applies(c)
    BY <1>6 DEF Kind, Light, Begins, Leaves, Pushes, Pops, Commits, Moved, Ended
  <2>2. CASE Applies(c)
    BY <1>1, <2>2, RollingApplies DEF Applies, AllRolling
  <2>3. CASE (Inserts(c) \/ Refers(c)) /\ ~ Applies(c)
    <3>1. /\ pc[c] \in {"insert", "refer"} /\ rolled' = rolled /\ batch' = batch
          /\ todo'[c] = FirstOnes(batch[c])
      BY <1>6, <2>3 DEF Inserts, RowStep, Refers, Moved
    <3>2. rolled'[c] = {}
      BY <3>1 DEF Shape, CallOK, Hands
    <3>3. FirstOnes(batch[c])' = FirstOnes(batch[c])
      BY <1>1, <3>1, NewestStays
    <3> QED
      BY <3>1, <3>2, <3>3, RollingBegins
  <2> QED
    BY <2>1, <2>2, <2>3
<1>7. AllRolling'
  BY <1>5, <1>6 DEF AllRolling
<1> QED
  BY <1>1, <1>4, <1>7 DEF Pricing, AllRolling

LEMMA PricingRests ==
  ASSUME Shape, Pricing, CallsRest
  PROVE  Pricing'
<1>1. UNCHANGED <<snapshots, latest, req, pc, held, rolled, batch, todo>>
  BY DEF CallsRest, work
<1>2. Exclusive(held)' /\ LatestInStep'
  BY <1>1 DEF Pricing, Exclusive, LatestInStep
<1>3. \A t : Row(t)' = Row(t) /\ UpdateLock(Row(t).outcome)' = UpdateLock(Row(t).outcome)
  BY <1>1 DEF Row, UpdateLock
<1>4. ASSUME NEW c \in Calls, Rolling(c) PROVE Rolling(c)'
  <2>1. /\ FirstOnes(batch[c])' = FirstOnes(batch[c])
        /\ \A i \in DOMAIN batch[c] : NewestLike(batch[c], i)' = NewestLike(batch[c], i)
    BY <1>1, <1>3, NewestSame
  <2>2. Applied(c)' = Applied(c) /\ Applied(c) \subseteq DOMAIN batch[c]
    BY <1>1, <2>1 DEF Applied, FirstOnes
  <2>3. \A i \in Applied(c) :
          RollsForward(NewestLike(batch[c], i))' <=> RollsForward(NewestLike(batch[c], i))
    BY <1>1, <2>1, <2>2 DEF RollsForward, Row
  <2> QED
    BY <1>1, <1>3, <1>4, <2>1, <2>2, <2>3 DEF Rolling
<1> QED
  BY <1>1, <1>2, <1>4 DEF Pricing, Writing

LEMMA PricingHolds == Spec => []Pricing
<1>1. ASSUME Init PROVE Pricing
  <2>1. \A c \in Calls : ~ Writing(c) /\ held[c] = {}
    BY <1>1 DEF Init, Writing, Looping
  <2>2. DOMAIN held = Calls
    BY <1>1 DEF Init
  <2>3. LatestInStep
    BY <1>1 DEF Init, LatestInStep
  <2> QED
    BY <2>1, <2>2, <2>3 DEF Pricing, Exclusive
<1>2. ASSUME Shape, Keys, Pricing, [Next]_vars PROVE Pricing'
  BY <1>2, NextKinds, PricingStep, PricingRests
<1> QED
  BY <1>1, <1>2, ShapeHolds, KeysHolds, PTL DEF Spec

\* Whatever the order in which records and flushes of an outcome insert, wait,
\* update and commit, its cached price is that of its newest row.
THEOREM CachedPriceIsNewest == Spec => []LatestInStep
<1>1. Pricing => LatestInStep
  BY DEF Pricing
<1> QED
  BY <1>1, PricingHolds, PTL

-----------------------------------------------------------------------------
(* What callers are told. *)

LEMMA ReportFields ==
  ASSUME NEW k, NEW x, NEW y, NEW z
  PROVE  /\ Report(k, x, y, z).kind = k /\ Report(k, x, y, z).landed = x
         /\ Report(k, x, y, z).conflicts = y /\ Report(k, x, y, z).lost = z
BY DEF Report

\* What a flush has inserted is no more than its batch.
LEMMA InsertedFit ==
  ASSUME Shape, NEW c \in Calls
  PROVE  /\ IsFiniteSet(inserted[c]) /\ Cardinality(inserted[c]) \in Nat
         /\ Cardinality(inserted[c]) <= Len(batch[c])
         /\ Len(batch[c]) \in Nat /\ Len(batch[c]) <= BatchSize
<1>1. /\ batch[c] \in Seq(Calls) /\ inserted[c] \subseteq Ticks(c) /\ Len(batch[c]) <= BatchSize
  BY DEF Shape, Functions, CallOK, Hands
<1>2. PICK n \in Nat : n = Len(batch[c]) /\ DOMAIN batch[c] = 1 .. n
  BY <1>1
<1>3. IsFiniteSet(1 .. n) /\ Cardinality(1 .. n) = n
  BY FS_Interval
<1> DEFINE f == [i \in 1 .. n |-> batch[c][i]]
<1>4. f \in Surjection(1 .. n, Ticks(c))
  BY <1>2 DEF Ticks, Surjection
<1>5. IsFiniteSet(Ticks(c)) /\ Cardinality(Ticks(c)) <= n
  <2> HIDE DEF f
  <2> QED
    BY <1>3, <1>4, FS_Surjection
<1>6. /\ IsFiniteSet(inserted[c]) /\ Cardinality(inserted[c]) <= Cardinality(Ticks(c))
      /\ Cardinality(inserted[c]) \in Nat /\ Cardinality(Ticks(c)) \in Nat
  BY <1>1, <1>5, FS_Subset, FS_CardinalityType
<1> QED
  BY <1>1, <1>2, <1>5, <1>6

\* The report of the call that takes a step.
LEMMA StepTells ==
  ASSUME Shape, NEW c \in Calls, Kind(c)
  PROVE  \/ /\ reply'[c].landed = 0 /\ reply'[c].conflicts = 0 /\ reply'[c].lost = 0
            /\ reply'[c].kind \notin {"flushed", "skipped", "recorded"}
         \/ /\ Pops(c) /\ c \in Flushes /\ reply'[c].kind \in {"flushed", "skipped"}
            /\ reply'[c].landed = 0 /\ reply'[c].conflicts = 0
            /\ reply'[c].lost = Len(batch'[c]) /\ reply'[c].lost \in Nat
         \/ /\ Commits(c) /\ req[c].op = "record" /\ reply'[c].kind = "recorded"
            /\ reply'[c].landed = 0 /\ reply'[c].conflicts = 0 /\ reply'[c].lost = 0
         \/ /\ Commits(c) /\ c \in Flushes /\ reply'[c].kind = "flushed"
            /\ reply'[c].landed = Cardinality(inserted[c])
            /\ reply'[c].conflicts = Len(batch[c]) - Cardinality(inserted[c])
            /\ reply'[c].lost = 0
<1>1. reply[c] = Report("none", 0, 0, 0)
  BY KindsStart
<1>2. CASE reply'[c] = reply[c]
  BY <1>1, <1>2, ReportFields
<1>3. CASE Leaves(c) \/ Pushes(c)
  BY <1>3, ReportFields DEF Leaves, Pushes
<1>4. CASE Pops(c) /\ reply'[c] # reply[c]
  <2>1. /\ PopSize \in Nat /\ Len(Front) = PopSize
    BY PopFacts DEF Shape, Tables
  <2>2. c \in Flushes /\ batch'[c] = Front
    BY <1>4, PopMoves DEF Pops
  <2>3. \/ reply'[c] = Report("skipped", 0, 0, PopSize)
        \/ PopSize = 0 /\ reply'[c] = Report("flushed", 0, 0, 0)
    BY <1>4 DEF Pops, Moved
  <2> QED
    BY <1>4, <2>1, <2>2, <2>3, ReportFields
<1>5. CASE Commits(c)
  <2>1. req[c].op = "flush" => c \in Flushes
    <3>1. req[c] \in Requests
      BY <1>5 DEF Commits, Shape, CallOK, Where
    <3> QED
      BY <3>1, FeedAssumption DEF Flushes
  <2>2. CASE reply'[c] = Report("crashed", 0, 0, 0)
    BY <2>2, ReportFields
  <2>3. CASE req[c].op = "record" /\ reply'[c] = Report("recorded", 0, 0, 0)
    BY <1>5, <2>3, ReportFields
  <2>4. CASE req[c].op = "flush" /\ reply'[c] = Report("flushed", Cardinality(inserted[c]),
                                      Len(batch[c]) - Cardinality(inserted[c]), 0)
    BY <1>5, <2>1, <2>4, ReportFields
  <2> QED
    BY <1>5, <2>2, <2>3, <2>4 DEF Commits
<1> QED
  BY <1>2, <1>3, <1>4, <1>5 DEF Kind, Light, Begins, Inserts, RowStep, Refers, Applies, Moved

AllTold == \A c \in Calls : Told(c)

LEMMA ToldStep ==
  ASSUME Shape, AllTold, NEW c \in Calls, Kind(c)
  PROVE  AllTold'
<1>1. Forward(c) /\ (c \in Flushes => c \in Flushes')
  BY KindsStart, PopMoves DEF Forward, Flushes, Shape, CallOK, Where
<1>2. ASSUME NEW d \in Calls, d # c PROVE Told(d)'
  <2>1. /\ reply'[d] = reply[d] /\ batch'[d] = batch[d] /\ (d \in Flushes => d \in Flushes')
        /\ Told(d)
    BY <1>1, <1>2 DEF Forward, OnlyCall, Flushes, AllTold
  <2> QED
    BY <2>1 DEF Told
<1>3. Told(c)'
  <2>1. Len(batch'[c]) \in Nat => Len(batch'[c]) = 0 + 0 + Len(batch'[c])
    OBVIOUS
  <2>2. Commits(c) => batch' = batch
    BY DEF Commits
  <2>3. /\ Cardinality(inserted[c]) \in Nat /\ Cardinality(inserted[c]) <= Len(batch[c])
        /\ Len(batch[c]) \in Nat
    BY InsertedFit
  <2> QED
    BY <1>1, <2>1, <2>2, <2>3, StepTells DEF Told
<1> QED
  BY <1>2, <1>3 DEF AllTold

SnapshotsCounted ==
  NoneCrashed => Cardinality(snapshots) =
    Cardinality(SeedSnapshots) + Cardinality(Landed) + Cardinality(Recorded)

LEMMA LandedFinite ==
  ASSUME Shape
  PROVE  /\ IsFiniteSet(Landed) /\ Cardinality(Landed) \in Nat
         /\ IsFiniteSet(Recorded) /\ Cardinality(Recorded) \in Nat
         /\ IsFiniteSet(snapshots) /\ Cardinality(snapshots) \in Nat
         /\ IsFiniteSet(SeedSnapshots) /\ Cardinality(SeedSnapshots) \in Nat
<1>1. Landed \in SUBSET (Flushes \X (1 .. BatchSize)) /\ IsFiniteSet(Flushes \X (1 .. BatchSize))
  BY PlacesFinite DEF Landed
<1>2. Recorded \in SUBSET Calls /\ IsFiniteSet(Calls)
  BY FeedAssumption DEF Recorded
<1>3. IsFiniteSet(Landed) /\ IsFiniteSet(Recorded)
  BY <1>1, <1>2, FS_Subset
<1>4. IsFiniteSet(snapshots) /\ IsFiniteSet(SeedSnapshots)
  BY FeedAssumption DEF Shape, Tables
<1> QED
  BY <1>3, <1>4, FS_CardinalityType

\* What a commit adds to odds_snapshots.
LEMMA CommitAdds ==
  ASSUME Shape, Keys, NEW c \in Calls, Commits(c)
  PROVE  Cardinality(snapshots') = Cardinality(snapshots) + Cardinality(inserted[c])
<1> DEFINE f == [t \in inserted[c] |-> Row(t)]
           R == RowsOf(inserted[c])
<1>1. IsFiniteSet(inserted[c]) /\ Cardinality(inserted[c]) \in Nat
  BY InsertedFit
<1>2. f \in Bijection(inserted[c], R)
  <2>1. \A t, u \in inserted[c] : Row(t) = Row(u) => t = u
    BY DEF Keys, SameKey
  <2> QED
    BY <2>1 DEF Bijection, Injection, IsInjective, Surjection, RowsOf
<1>3. IsFiniteSet(R) /\ Cardinality(R) = Cardinality(inserted[c])
  <2>1. ExistsBijection(inserted[c], R)
    BY <1>2 DEF ExistsBijection
  <2> QED
    BY <1>1, <2>1, FS_Bijection
<1>4. snapshots \cap R = {}
  BY DEF Keys, SameKey, RowsOf
<1>5. snapshots' = snapshots \cup R
  BY DEF Commits
<1> HIDE DEF R
<1>6. Cardinality(snapshots \cap R) = 0
  BY <1>4, FS_EmptySet
<1>7. IsFiniteSet(snapshots) /\ Cardinality(snapshots) \in Nat
  BY LandedFinite
<1>8. Cardinality(snapshots \cup R) = Cardinality(snapshots) + Cardinality(R) - Cardinality(snapshots \cap R)
  BY <1>3, <1>7, FS_Union
<1> QED
  BY <1>1, <1>3, <1>5, <1>6, <1>7, <1>8

LEMMA CrashStays ==
  ASSUME Shape, NEW c \in Calls, Kind(c), NoneCrashed'
  PROVE  NoneCrashed
<1>1. Forward(c) /\ reply[c].kind # "crashed"
  BY KindsStart, ReportFields
<1> QED
  BY <1>1 DEF NoneCrashed, Forward, OnlyCall

LEMMA CountedStep ==
  ASSUME Shape, Keys, Telling, NEW c \in Calls, Kind(c)
  PROVE  SnapshotsCounted'
<1>1. /\ Forward(c) /\ reply[c].kind = "none" /\ reply[c].landed = 0
      /\ \A d \in Calls \ {c} : reply'[d] = reply[d] /\ (d \in Flushes' <=> d \in Flushes)
  BY KindsStart, ReportFields DEF Forward, OnlyCall, Flushes
<1>2. SUFFICES ASSUME NoneCrashed'
               PROVE  Cardinality(snapshots') =
                        Cardinality(SeedSnapshots) + Cardinality(Landed') + Cardinality(Recorded')
  BY DEF SnapshotsCounted
<1>3. Cardinality(snapshots) =
        Cardinality(SeedSnapshots) + Cardinality(Landed) + Cardinality(Recorded)
  BY <1>2, CrashStays DEF Telling
<1>4. Flushes \subseteq Calls /\ Flushes' \subseteq Calls
  BY DEF Flushes
<1>5. ASSUME reply'[c].landed = 0 PROVE Landed' = Landed
  <2>1. \A p \in Flushes \X (1 .. BatchSize) : p[1] = c => ~ (p[2] <= reply[p[1]].landed)
    BY <1>1, FeedAssumption
  <2>2. \A p \in Flushes' \X (1 .. BatchSize) : p[1] = c => ~ (p[2] <= reply'[p[1]].landed)
    BY <1>5, FeedAssumption
  <2>3. \A p : p[1] # c => (p \in Landed' <=> p \in Landed)
    BY <1>1, <1>4 DEF Landed
  <2>4. \A p : p \in Landed' <=> p \in Landed
    BY <2>1, <2>2, <2>3 DEF Landed
  <2> QED
    BY <2>4 DEF Landed
<1>6. ASSUME reply'[c].kind # "recorded" PROVE Recorded' = Recorded
  BY <1>1, <1>6 DEF Recorded
<1>7. CASE ~ Commits(c)
  <2>1. snapshots' = snapshots
    BY <1>7 DEF Kind, Light, Begins, Inserts, Refers, Applies, Leaves, Pushes, Pops, TablesSame, postgres
  <2>2. reply'[c].landed = 0 /\ reply'[c].kind # "recorded"
    BY <1>7, StepTells
  <2> QED
    BY <1>3, <1>5, <1>6, <2>1, <2>2
<1>8. CASE Commits(c)
  <2>1. /\ Cardinality(snapshots') = Cardinality(snapshots) + Cardinality(inserted[c])
        /\ req[c] # None /\ req[c].op \in {"record", "flush"} /\ req'[c] = req[c]
        /\ Inserting(c) /\ Hands(c) /\ Writing(c) /\ pc[c] = "commit"
    BY <1>1, <1>8, CommitAdds, FeedAssumption
       DEF Commits, Writing, Keys, Shape, CallOK, Where, Forward
  <2>2. reply'[c].kind # "crashed"
    BY <1>2, <2>1 DEF NoneCrashed
  <2>3. /\ IsFiniteSet(Landed) /\ Cardinality(Landed) \in Nat /\ Cardinality(snapshots) \in Nat
        /\ IsFiniteSet(Recorded) /\ Cardinality(Recorded) \in Nat
        /\ Cardinality(SeedSnapshots) \in Nat
    BY LandedFinite
  <2>4. CASE req[c].op = "record"
    <3>1. reply'[c] = Report("recorded", 0, 0, 0)
      BY <1>8, <2>2, <2>4, ReportFields DEF Commits
    <3>2. Landed' = Landed /\ reply'[c].kind = "recorded"
      BY <1>5, <3>1, ReportFields
    <3>3. Recorded' = Recorded \cup {c} /\ c \notin Recorded
      BY <1>1, <3>2 DEF Recorded
    <3>4. inserted[c] = {c}
      BY <2>1, <2>4 DEF Inserting, Hands
    <3>5. Cardinality(inserted[c]) = 1 /\ Cardinality(Recorded') = Cardinality(Recorded) + 1
      BY <2>3, <3>3, <3>4, FS_Singleton, FS_AddElement
    <3> QED
      BY <1>3, <2>1, <2>3, <3>2, <3>5
  <2>5. CASE req[c].op = "flush"
    <3>1. PICK n \in Nat : n = Cardinality(inserted[c]) /\ n <= BatchSize
      BY InsertedFit, FeedAssumption
    <3>2. reply'[c].landed = n /\ reply'[c].kind # "recorded" /\ c \in Flushes /\ c \in Flushes'
      BY <1>8, <2>1, <2>2, <2>5, <3>1, ReportFields DEF Commits, Flushes
    <3>3. 1 .. n \subseteq 1 .. BatchSize
      BY <3>1, FeedAssumption
    <3> DEFINE N == {c} \X (1 .. n)
    <3>4. \A p \in Landed : p[1] # c
      BY <1>1, FeedAssumption DEF Landed
    <3>5. \A p : p \in Landed' <=> p \in Landed \/ p \in N
      <4>1. \A p : p[1] # c => (p \in Landed' <=> p \in Landed)
        BY <1>1, <1>4 DEF Landed
      <4>2. \A p : p[1] = c => (p \in Landed' <=> p \in N)
        BY <3>1, <3>2, <3>3, FeedAssumption DEF Landed
      <4>3. \A p \in N : p[1] = c
        OBVIOUS
      <4> QED
        BY <3>4, <4>1, <4>2, <4>3
    <3>6. IsFiniteSet(N) /\ Cardinality(N) = n
      <4>1. IsFiniteSet(1 .. n) /\ Cardinality(1 .. n) = n
        BY FS_Interval
      <4>2. IsFiniteSet({c}) /\ Cardinality({c}) = 1
        BY FS_Singleton
      <4> QED
        BY <4>1, <4>2, FS_Product
    <3>7. Landed \cap N = {}
      BY <3>4
    <3> HIDE DEF N
    <3>8. Landed' = Landed \cup N /\ Cardinality(Landed \cap N) = 0
      BY <3>5, <3>7, FS_EmptySet
    <3>9. Cardinality(Landed') = Cardinality(Landed) + n
      <4>1. Cardinality(Landed \cup N) = Cardinality(Landed) + Cardinality(N) - Cardinality(Landed \cap N)
        BY <2>3, <3>6, FS_Union
      <4> QED
        BY <2>3, <3>6, <3>8, <4>1
    <3> QED
      BY <1>3, <1>6, <2>1, <2>3, <3>1, <3>2, <3>9
  <2> QED
    BY <2>1, <2>4, <2>5
<1> QED
  BY <1>7, <1>8

LEMMA TellingHolds == Spec => []Telling
<1>1. ASSUME Init PROVE Telling
  <2>1. /\ \A c \in Calls : reply[c] = Report("none", 0, 0, 0) /\ req[c] = None
        /\ snapshots = SeedSnapshots
    BY <1>1 DEF Init
  <2>2. Flushes = {} /\ Recorded = {}
    BY <2>1, ReportFields DEF Flushes, Recorded
  <2>3. Landed = {}
    BY <2>2 DEF Landed
  <2>4. \A c \in Calls : Told(c)
    BY <2>1, ReportFields DEF Told
  <2>5. Cardinality(SeedSnapshots) \in Nat
    BY FeedAssumption, FS_CardinalityType
  <2> QED
    BY <2>1, <2>2, <2>3, <2>4, <2>5, FS_EmptySet DEF Telling
<1>2. ASSUME Shape, Keys, Telling, [Next]_vars PROVE Telling'
  <2>1. CASE CallsRest
    <3>1. UNCHANGED <<snapshots, req, batch, reply>>
      BY <2>1 DEF CallsRest, work
    <3> QED
      BY <1>2, <3>1 DEF Telling, Told, NoneCrashed, Landed, Recorded, Flushes
  <2>2. CASE \E c \in Calls : Kind(c)
    <3>1. AllTold' /\ SnapshotsCounted'
      BY <1>2, <2>2, ToldStep, CountedStep DEF Telling, AllTold
    <3> QED
      BY <3>1 DEF Telling, AllTold, SnapshotsCounted
  <2> QED
    BY <1>2, <2>1, <2>2, NextKinds
<1> QED
  BY <1>1, <1>2, ShapeHolds, KeysHolds, PTL DEF Spec

\* The first positions of each of F, so many as n says; so many from one on.
Lower(F, N, n)     == {p \in F \X (1 .. N) : p[2] <= n[p[1]]}
Upper(F, N, lo, n) == {p \in F \X (1 .. N) : lo[p[1]] < p[2] /\ p[2] <= lo[p[1]] + n[p[1]]}

LEMMA ShiftCount ==
  ASSUME NEW F, IsFiniteSet(F), NEW N \in Nat, NEW lo \in [F -> Nat], NEW n \in [F -> Nat],
         \A c \in F : lo[c] + n[c] <= N
  PROVE  /\ IsFiniteSet(Upper(F, N, lo, n))
         /\ Cardinality(Upper(F, N, lo, n)) = Cardinality(Lower(F, N, n))
<1> DEFINE Up == {p \in F \X (1 .. N) : lo[p[1]] < p[2] /\ p[2] <= lo[p[1]] + n[p[1]]}
           Dn == {p \in F \X (1 .. N) : p[2] <= n[p[1]]}
           f == [p \in Dn |-> <<p[1], lo[p[1]] + p[2]>>]
<1>1. IsFiniteSet(Up) /\ IsFiniteSet(Dn)
  <2>1. IsFiniteSet(1 .. N)
    BY FS_Interval
  <2>2. IsFiniteSet(F \X (1 .. N))
    BY <2>1, FS_Product
  <2>3. Up \in SUBSET (F \X (1 .. N)) /\ Dn \in SUBSET (F \X (1 .. N))
    OBVIOUS
  <2> QED
    BY <2>2, <2>3, FS_Subset
<1>2. \A p \in F \X (1 .. N) : /\ p = <<p[1], p[2]>> /\ p[1] \in F /\ p[2] \in 1 .. N
                               /\ lo[p[1]] \in Nat /\ n[p[1]] \in Nat
                               /\ lo[p[1]] + n[p[1]] <= N
  OBVIOUS
<1>3. ASSUME NEW p \in Dn PROVE f[p] \in Up
  <2>1. p \in F \X (1 .. N) /\ p[2] <= n[p[1]]
    OBVIOUS
  <2>2. lo[p[1]] + p[2] \in 1 .. N /\ lo[p[1]] < lo[p[1]] + p[2]
        /\ lo[p[1]] + p[2] <= lo[p[1]] + n[p[1]]
    BY <1>2, <2>1
  <2> QED
    BY <1>2, <2>1, <2>2
<1>4. ASSUME NEW p \in Dn, NEW q \in Dn, f[p] = f[q] PROVE p = q
  <2>1. p \in F \X (1 .. N) /\ q \in F \X (1 .. N)
    OBVIOUS
  <2>2. p[1] = q[1] /\ lo[p[1]] + p[2] = lo[q[1]] + q[2]
    BY <1>4
  <2>3. p[2] = q[2]
    <3>1. PICK l \in Nat : l = lo[p[1]]
      BY <1>2, <2>1
    <3>2. p[2] \in Nat /\ q[2] \in Nat
      BY <1>2, <2>1
    <3> HIDE DEF f, Up, Dn
    <3>3. lo[q[1]] = l
      BY <2>2, <3>1
    <3>4. l + p[2] = l + q[2]
      BY <2>2, <3>1, <3>3
    <3> QED
      BY <3>2, <3>4
  <2> QED
    BY <1>2, <2>1, <2>2, <2>3
<1>5. ASSUME NEW q \in Up PROVE \E p \in Dn : f[p] = q
  <2>1. q \in F \X (1 .. N) /\ lo[q[1]] < q[2] /\ q[2] <= lo[q[1]] + n[q[1]]
    OBVIOUS
  <2>2. PICK k : k = q[2] - lo[q[1]]
    OBVIOUS
  <2>3. k \in 1 .. N /\ k <= n[q[1]] /\ lo[q[1]] + k = q[2]
    BY <1>2, <2>1, <2>2
  <2>4. <<q[1], k>> \in Dn
    BY <1>2, <2>1, <2>3
  <2>5. f[<<q[1], k>>] = <<q[1], lo[q[1]] + k>>
    BY <2>4
  <2>6. q = <<q[1], q[2]>>
    BY <1>2, <2>1
  <2> HIDE DEF f, Up, Dn
  <2>7. <<q[1], lo[q[1]] + k>> = q
    BY <2>3, <2>6
  <2> QED
    BY <2>4, <2>5, <2>7
<1>6. f \in Bijection(Dn, Up)
  <2>1. f \in [Dn -> Up]
    BY <1>3
  <2> HIDE DEF f, Up, Dn
  <2> QED
    BY <1>4, <1>5, <2>1 DEF Bijection, Injection, IsInjective, Surjection
<1>7. Cardinality(Up) = Cardinality(Dn)
  <2>1. ExistsBijection(Dn, Up)
    BY <1>6 DEF ExistsBijection
  <2> HIDE DEF Up, Dn
  <2> QED
    BY <1>1, <2>1, FS_Bijection
<1> QED
  BY <1>1, <1>7 DEF Upper, Lower

\* Three sets that have nothing in common.
LEMMA ThreeParts ==
  ASSUME NEW A, NEW B, NEW C, IsFiniteSet(A), IsFiniteSet(B), IsFiniteSet(C),
         A \cap B = {}, (A \cup B) \cap C = {}
  PROVE  Cardinality((A \cup B) \cup C) = Cardinality(A) + Cardinality(B) + Cardinality(C)
<1>1. IsFiniteSet(A \cup B) /\ Cardinality(A \cup B) = Cardinality(A) + Cardinality(B) - Cardinality(A \cap B)
  BY FS_Union
<1>2. Cardinality((A \cup B) \cup C)
        = Cardinality(A \cup B) + Cardinality(C) - Cardinality((A \cup B) \cap C)
  BY <1>1, FS_Union
<1>3. Cardinality(A \cap B) = 0 /\ Cardinality((A \cup B) \cap C) = 0
  BY FS_EmptySet
<1>4. /\ Cardinality(A) \in Nat /\ Cardinality(B) \in Nat /\ Cardinality(C) \in Nat
      /\ Cardinality(A \cup B) \in Nat
  BY <1>1, FS_CardinalityType
<1> QED
  BY <1>1, <1>2, <1>3, <1>4

\* When every flush has told, its batch is what it says has landed, was there
\* already, or is lost.
LEMMA BatchesAddUp ==
  ASSUME Shape, AllTold, \A c \in Flushes : reply[c].kind \in {"flushed", "skipped"}
  PROVE  Cardinality(Popped) = Cardinality(Landed) + Cardinality(Conflicts) + Cardinality(Lost)
<1> DEFINE landed == [c \in Flushes |-> reply[c].landed]
           conflicts == [c \in Flushes |-> reply[c].conflicts]
           lost == [c \in Flushes |-> reply[c].lost]
           first == [c \in Flushes |-> reply[c].landed + reply[c].conflicts]
           B == Upper(Flushes, BatchSize, landed, conflicts)
           C == Upper(Flushes, BatchSize, first, lost)
<1>1. \A c \in Flushes :
        /\ c \in Calls /\ landed[c] \in Nat /\ conflicts[c] \in Nat /\ lost[c] \in Nat
        /\ first[c] = landed[c] + conflicts[c] /\ first[c] \in Nat
        /\ first[c] + lost[c] = Len(batch[c])
        /\ Len(batch[c]) <= BatchSize /\ DOMAIN batch[c] = 1 .. Len(batch[c])
  <2>1. \A c \in Flushes : c \in Calls
    BY DEF Flushes
  <2> QED
    BY <2>1, InsertedFit DEF AllTold, Told, Shape, Functions
<1>2. /\ landed \in [Flushes -> Nat] /\ conflicts \in [Flushes -> Nat] /\ lost \in [Flushes -> Nat]
      /\ first \in [Flushes -> Nat] /\ BatchSize \in Nat /\ IsFiniteSet(Flushes)
      /\ \A c \in Flushes : first[c] + lost[c] <= BatchSize /\ landed[c] + conflicts[c] <= BatchSize
  <2>1. BatchSize \in Nat
    BY FeedAssumption
  <2>2. \A c \in Flushes : first[c] + lost[c] <= BatchSize /\ landed[c] + conflicts[c] <= BatchSize
    <3> HIDE DEF landed, conflicts, lost, first
    <3> QED
      BY <1>1, <2>1
  <2> QED
    BY <1>1, <2>1, <2>2, PlacesFinite
<1>3. /\ Landed = Lower(Flushes, BatchSize, landed)
      /\ Conflicts = Lower(Flushes, BatchSize, conflicts)
      /\ Lost = Lower(Flushes, BatchSize, lost)
  BY DEF Landed, Conflicts, Lost, Lower
<1> HIDE DEF landed, conflicts, lost, first
<1>4. IsFiniteSet(B) /\ Cardinality(B) = Cardinality(Conflicts)
  BY <1>2, <1>3, ShiftCount
<1>5. IsFiniteSet(C) /\ Cardinality(C) = Cardinality(Lost)
  BY <1>2, <1>3, ShiftCount
<1>6. Popped = (Landed \cup B) \cup C
  <2>1. ASSUME NEW p \in Flushes \X (1 .. BatchSize)
        PROVE  p[2] \in DOMAIN batch[p[1]] <=>
                 \/ p[2] <= landed[p[1]]
                 \/ landed[p[1]] < p[2] /\ p[2] <= landed[p[1]] + conflicts[p[1]]
                 \/ first[p[1]] < p[2] /\ p[2] <= first[p[1]] + lost[p[1]]
    <3>1. p[1] \in Flushes /\ p[2] \in 1 .. BatchSize
      OBVIOUS
    <3> QED
      BY <1>1, <1>2, <3>1
  <2> QED
    BY <1>3, <2>1 DEF Popped, Upper, Lower
<1>7. Landed \cap B = {} /\ (Landed \cup B) \cap C = {}
  <2>1. ASSUME NEW p \in Flushes \X (1 .. BatchSize)
        PROVE  /\ p[2] <= landed[p[1]] => ~ (landed[p[1]] < p[2]) /\ ~ (first[p[1]] < p[2])
               /\ p[2] <= landed[p[1]] + conflicts[p[1]] => ~ (first[p[1]] < p[2])
    <3>1. p[1] \in Flushes /\ p[2] \in 1 .. BatchSize
      OBVIOUS
    <3> QED
      BY <1>1, <1>2, <3>1
  <2> QED
    BY <1>3, <2>1 DEF Upper, Lower
<1>8. IsFiniteSet(Landed)
  BY LandedFinite
<1> HIDE DEF B, C
<1> QED
  BY <1>4, <1>5, <1>6, <1>7, <1>8, ThreeParts

\* What flushes tell is what became of the ticks, and what was recorded and landed
\* is what the table has gained, unless somebody went without a word.
THEOREM FeedAddsUp == Spec => []Accounted
<1>1. ASSUME Shape, Placing, Telling PROVE Accounted
  <2>1. SUFFICES
          ASSUME \A c \in Calls : req[c] # None /\ pc[c] # "idle" =>
                   CASE req[c].op = "flush"  -> reply[c].kind \in {"flushed", "skipped"}
                     [] req[c].op = "record" -> reply[c].kind # "crashed"
                     [] OTHER -> TRUE
          PROVE  /\ accepted = Len(queue)
                      + Cardinality(Landed) + Cardinality(Conflicts) + Cardinality(Lost)
                 /\ Cardinality(snapshots) = Cardinality(SeedSnapshots)
                      + Cardinality(Landed) + Cardinality({c \in Calls : reply[c].kind = "recorded"})
    BY DEF Accounted
  <2>2. \A c \in Calls : req[c] # None => pc[c] # "idle"
    BY <1>1 DEF Shape, CallOK, Where
  <2>3. \A c \in Flushes : reply[c].kind \in {"flushed", "skipped"}
    BY <2>1, <2>2 DEF Flushes
  <2>4. NoneCrashed
    BY <2>1, <2>2 DEF NoneCrashed
  <2>5. Cardinality(Popped) = Cardinality(Landed) + Cardinality(Conflicts) + Cardinality(Lost)
    BY <1>1, <2>3, BatchesAddUp DEF Telling, AllTold
  <2>6. accepted = Len(queue) + Cardinality(Popped)
    BY <1>1 DEF Placing
  <2>7. /\ Cardinality(Landed) \in Nat /\ Cardinality(Conflicts) \in Nat /\ Cardinality(Lost) \in Nat
        /\ Len(queue) \in Nat
    <3>1. /\ IsFiniteSet(Flushes \X (1 .. BatchSize))
          /\ Landed \in SUBSET (Flushes \X (1 .. BatchSize))
          /\ Conflicts \in SUBSET (Flushes \X (1 .. BatchSize))
          /\ Lost \in SUBSET (Flushes \X (1 .. BatchSize))
      BY <1>1, PlacesFinite DEF Landed, Conflicts, Lost
    <3>2. IsFiniteSet(Landed) /\ IsFiniteSet(Conflicts) /\ IsFiniteSet(Lost)
      BY <3>1, FS_Subset
    <3>3. queue \in Seq(Calls)
      BY <1>1 DEF Shape, Tables
    <3> QED
      BY <3>2, <3>3, FS_CardinalityType
  <2>8. accepted = Len(queue) + Cardinality(Landed) + Cardinality(Conflicts) + Cardinality(Lost)
    BY <2>5, <2>6, <2>7
  <2> QED
    BY <1>1, <2>4, <2>8 DEF Telling, Recorded
<1> QED
  BY <1>1, ShapeHolds, PlacingHolds, TellingHolds, PTL

-----------------------------------------------------------------------------
(* The ticks of Ticker. *)

LEMMA KnownPlaces ==
  ASSUME Shape, NEW p \in Places
  PROVE  KnownTick(TickAt(p))
<1>1. CASE p \in Popped
  <2>1. p[1] \in Calls /\ TickAt(p) \in Ticks(p[1])
    BY <1>1, PoppedIs DEF Ticks
  <2> QED
    BY <2>1 DEF Shape, CallOK, Hands
<1>2. CASE \E i \in DOMAIN queue : p = <<None, i>>
  BY <1>2 DEF Shape, Tables, QueueKnown, TickAt
<1> QED
  BY <1>1, <1>2, PlaceIs

Entry(t) == [id |-> t, row |-> Row(t)]

LEMMA EntryIs ==
  ASSUME NEW x, NEW P
  PROVE  x \in TicksOf(P) <=> \E p \in P : x = Entry(TickAt(p))
BY DEF TicksOf, Entry

LEMMA EntriesApart ==
  ASSUME NEW t, NEW u, Entry(t) = Entry(u)
  PROVE  t = u
BY DEF Entry

Pending == TicksOf(Places \ Over)
Gone    == TicksOf(Over)
Own(c)  == {p \in Popped : p[1] = c}

\* A step that pushes and pops nothing and that ends no flush leaves the ticks
\* pending that were, and one that ends a flush makes its ticks go.
LEMMA TicksGo ==
  ASSUME Shape, Placing, NEW c \in Calls, Kind(c), ~ Pops(c), ~ Pushes(c)
  PROVE  /\ ~ (Ended(c) /\ c \in Flushes) => Pending' = Pending /\ Gone' = Gone
         /\ Ended(c) => /\ Pending' = Pending \ TicksOf(Own(c)) /\ Gone' = Gone \cup TicksOf(Own(c))
                        /\ TicksOf(Own(c)) \subseteq Pending
<1>1. /\ Forward(c) /\ pc[c] # "done" /\ Places' = Places /\ PoppedSame
      /\ \A p \in Places : TickAt(p)' = TickAt(p)
  BY KindsStart, KindsPop, PlacesStay
<1>2. \A p \in Places : Entry(TickAt(p))' = Entry(TickAt(p))
  BY <1>1, KnownPlaces, KnownStays DEF Entry
<1>3. \A p, q \in Places : Entry(TickAt(p)) = Entry(TickAt(q)) => p = q
  BY EntriesApart DEF Placing
<1>4. Popped \subseteq Places /\ Over \subseteq Places /\ Own(c) \subseteq Places \ Over
      /\ Over \subseteq Popped
  BY <1>1 DEF Places, Over, Own
<1>5. pc'[c] = "done" <=> Ended(c)
  BY <1>1 DEF Kind, Light, Begins, Inserts, RowStep, Refers, Applies, Leaves, Commits, Moved, Ended
<1>6. Over' = IF Ended(c) THEN Over \cup Own(c) ELSE Over
  <2>1. \A p \in Popped : p[1] # c => pc'[p[1]] = pc[p[1]]
    BY <1>1 DEF PoppedSame, Forward, OnlyCall
  <2>2. \A p : p \in Over' <=> p \in (IF Ended(c) THEN Over \cup Own(c) ELSE Over)
    BY <1>1, <1>5, <2>1 DEF Over, Own, PoppedSame
  <2>3. PICK S : S = IF Ended(c) THEN Over \cup Own(c) ELSE Over
    OBVIOUS
  <2>4. Over' \subseteq S /\ S \subseteq Over'
    BY <2>2, <2>3
  <2> QED
    BY <2>3, <2>4
<1>7. /\ \A x : x \in Pending' <=> \E p \in Places \ Over' : x = Entry(TickAt(p))
      /\ \A x : x \in Gone' <=> \E p \in Over' : x = Entry(TickAt(p))
  <2>1. \A x : x \in Pending' <=> \E p \in Places' \ Over' : x = Entry(TickAt(p))'
    BY DEF Pending, TicksOf, Entry
  <2>2. \A x : x \in Gone' <=> \E p \in Over' : x = Entry(TickAt(p))'
    BY DEF Gone, TicksOf, Entry
  <2>3. Over' \subseteq Places
    BY <1>4, <1>6
  <2> QED
    BY <1>1, <1>2, <2>1, <2>2, <2>3
<1>8. /\ \A x : x \in Pending <=> \E p \in Places \ Over : x = Entry(TickAt(p))
      /\ \A x : x \in Gone <=> \E p \in Over : x = Entry(TickAt(p))
      /\ \A x : x \in TicksOf(Own(c)) <=> \E p \in Own(c) : x = Entry(TickAt(p))
  BY EntryIs DEF Pending, Gone
<1>9. CASE Ended(c)
  <2>1. Over' = Over \cup Own(c)
    BY <1>6, <1>9
  <2>2. \A x : x \in Gone' <=> x \in Gone \/ x \in TicksOf(Own(c))
    BY <1>7, <1>8, <2>1
  <2>3. \A x : x \in Pending' <=> x \in Pending /\ x \notin TicksOf(Own(c))
    BY <1>3, <1>4, <1>7, <1>8, <2>1
  <2>4. TicksOf(Own(c)) \subseteq Pending
    BY <1>4, <1>8
  <2>5. c \notin Flushes => Own(c) = {}
    BY DEF Own, Popped
  <2>6. c \notin Flushes => TicksOf(Own(c)) = {}
    BY <1>8, <2>5
  <2>7. Pending' = Pending \ TicksOf(Own(c)) /\ Gone' = Gone \cup TicksOf(Own(c))
    <3>1. /\ Gone' \subseteq Gone \cup TicksOf(Own(c)) /\ Gone \cup TicksOf(Own(c)) \subseteq Gone'
          /\ Pending' \subseteq Pending \ TicksOf(Own(c)) /\ Pending \ TicksOf(Own(c)) \subseteq Pending'
      BY <2>2, <2>3
    <3> QED
      BY <3>1
  <2>8. c \notin Flushes => Pending' = Pending /\ Gone' = Gone
    BY <2>6, <2>7
  <2> QED
    BY <1>9, <2>4, <2>7, <2>8
<1>10. CASE ~ Ended(c)
  <2>1. Over' = Over
    BY <1>6, <1>10
  <2>2. \A x : (x \in Gone' <=> x \in Gone) /\ (x \in Pending' <=> x \in Pending)
    BY <1>7, <1>8, <2>1
  <2>3. Gone' = Gone /\ Pending' = Pending
    <3>1. Gone' \subseteq Gone /\ Gone \subseteq Gone' /\ Pending' \subseteq Pending /\ Pending \subseteq Pending'
      BY <2>2
    <3> QED
      BY <3>1
  <2> QED
    BY <1>10, <2>3
<1> QED
  BY <1>9, <1>10

LEMMA PendingIs ==
  ASSUME Shape
  PROVE  /\ \A x : x \in Pending <=> \/ \E p \in Popped \ Over : x = Entry(TickAt(p))
                                     \/ \E i \in DOMAIN queue : x = Entry(queue[i])
         /\ \A x : x \in Gone <=> \E p \in Over : x = Entry(TickAt(p))
         /\ Over \subseteq Popped /\ Popped \subseteq Places
         /\ \A i \in DOMAIN queue : <<None, i>> \in Places /\ TickAt(<<None, i>>) = queue[i]
<1>1. /\ Over \subseteq Popped /\ Popped \subseteq Places
      /\ \A i \in DOMAIN queue : /\ <<None, i>> \in Places /\ TickAt(<<None, i>>) = queue[i]
                                 /\ <<None, i>> \notin Popped
  BY PoppedIs, PlaceIs DEF Over, TickAt
<1>2. \A p \in Places : p \in Popped \/ \E i \in DOMAIN queue : p = <<None, i>>
  BY PlaceIs
<1>3. \A x : x \in Pending <=> \E p \in Places \ Over : x = Entry(TickAt(p))
  BY EntryIs DEF Pending
<1>4. \A x : x \in Gone <=> \E p \in Over : x = Entry(TickAt(p))
  BY EntryIs DEF Gone
<1>5. ASSUME NEW x
      PROVE  x \in Pending <=> \/ \E p \in Popped \ Over : x = Entry(TickAt(p))
                               \/ \E i \in DOMAIN queue : x = Entry(queue[i])
  <2>1. ASSUME x \in Pending
        PROVE  \/ \E p \in Popped \ Over : x = Entry(TickAt(p))
               \/ \E i \in DOMAIN queue : x = Entry(queue[i])
    <3>1. PICK p \in Places \ Over : x = Entry(TickAt(p))
      BY <1>3, <2>1
    <3>2. CASE p \in Popped
      BY <3>1, <3>2
    <3>3. CASE \E i \in DOMAIN queue : p = <<None, i>>
      <4>1. PICK i \in DOMAIN queue : p = <<None, i>>
        BY <3>3
      <4>2. TickAt(p) = queue[i]
        BY <1>1, <4>1
      <4> QED
        BY <3>1, <4>2
    <3> QED
      BY <1>2, <3>1, <3>2, <3>3
  <2>2. ASSUME NEW p \in Popped \ Over, x = Entry(TickAt(p))
        PROVE  x \in Pending
    BY <1>1, <1>3, <2>2
  <2>3. ASSUME NEW i \in DOMAIN queue, x = Entry(queue[i])
        PROVE  x \in Pending
    <3>1. <<None, i>> \in Places \ Over /\ TickAt(<<None, i>>) = queue[i]
      BY <1>1
    <3>2. x = Entry(TickAt(<<None, i>>))
      BY <2>3, <3>1
    <3> QED
      BY <1>3, <3>1, <3>2
  <2> QED
    BY <2>1, <2>2, <2>3
<1> QED
  BY <1>1, <1>4, <1>5

LEMMA OwnIs ==
  ASSUME Shape, NEW c \in Flushes, NEW x
  PROVE  x \in TicksOf(Own(c)) <=> \E t \in Ticks(c) : x = Entry(t)
<1>1. /\ c \in Calls /\ batch[c] \in Seq(Calls) /\ Len(batch[c]) <= BatchSize /\ BatchSize \in Nat
      /\ c # None
  BY FeedAssumption DEF Flushes, Shape, Functions, CallOK, Hands
<1>2. DOMAIN batch[c] \subseteq 1 .. BatchSize
  BY <1>1
<1>3. \A i \in DOMAIN batch[c] : <<c, i>> \in Own(c) /\ TickAt(<<c, i>>) = batch[c][i]
  BY <1>1, <1>2 DEF Own, Popped, TickAt
<1>4. \A p \in Own(c) : p[2] \in DOMAIN batch[c] /\ TickAt(p) = batch[c][p[2]]
  BY <1>1 DEF Own, Popped, TickAt
<1>5. x \in TicksOf(Own(c)) <=> \E p \in Own(c) : x = Entry(TickAt(p))
  BY EntryIs
<1>6. ASSUME NEW p \in Own(c), x = Entry(TickAt(p))
      PROVE  \E t \in Ticks(c) : x = Entry(t)
  <2>1. TickAt(p) \in Ticks(c)
    BY <1>4 DEF Ticks
  <2> QED
    BY <1>6, <2>1
<1>7. ASSUME NEW i \in DOMAIN batch[c], x = Entry(batch[c][i])
      PROVE  \E p \in Own(c) : x = Entry(TickAt(p))
  <2>1. <<c, i>> \in Own(c) /\ x = Entry(TickAt(<<c, i>>))
    BY <1>3, <1>7
  <2> QED
    BY <2>1
<1>8. \A t \in Ticks(c) : \E i \in DOMAIN batch[c] : t = batch[c][i]
  BY DEF Ticks
<1> QED
  BY <1>5, <1>6, <1>7, <1>8

\* A push is one more pending tick.
LEMMA TicksCome ==
  ASSUME Shape, Shape', Placing, NEW c \in Calls, Pushes(c)
  PROVE  /\ Pending' = Pending \cup {Entry(c)} /\ Entry(c) \notin Pending \cup Gone
         /\ Gone' = Gone
<1>1. /\ Forward(c) /\ pc[c] = "push" /\ req[c].op = "queue" /\ queue' = Append(queue, c)
      /\ queue \in Seq(Calls) /\ pc[c] # "done" /\ c \notin Flushes
  BY DEF Pushes, Ended, Shape, Tables, Flushes
<1>2. PoppedSame
  BY <1>1, PoppedStays DEF Pushes
<1>3. PICK last : last = Len(queue) + 1
  OBVIOUS
<1>4. /\ DOMAIN queue' = DOMAIN queue \cup {last} /\ queue'[last] = c
      /\ \A i \in DOMAIN queue : queue'[i] = queue[i]
  BY <1>1, <1>3
<1>5. \A p \in Popped : p[1] # c /\ p[1] \in Calls /\ pc'[p[1]] = pc[p[1]]
  BY <1>1, PoppedIs DEF Forward, OnlyCall
<1>6. Over' = Over
  BY <1>2, <1>5 DEF Over, PoppedSame
<1>7. \A p \in Popped : TickAt(p)' = TickAt(p) /\ p \in Places
  BY <1>2, PoppedIs DEF TickAt, PoppedSame, Places
<1>8. \A p \in Popped : Entry(TickAt(p))' = Entry(TickAt(p))
  BY <1>1, <1>7, KnownPlaces, KnownStays DEF Entry
<1>9. \A i \in DOMAIN queue : KnownTick(queue[i])
  BY DEF Shape, Tables, QueueKnown
<1>10. \A i \in DOMAIN queue : Entry(queue[i])' = Entry(queue[i])
  BY <1>1, <1>4, <1>9, KnownStays DEF Entry
<1>11. Entry(c)' = Entry(c)
  BY <1>1 DEF Entry, Row, Forward
<1>12. Entry(queue[last])' = Entry(c)
  BY <1>4, <1>11 DEF Entry
<1>13. \A p \in Places : TickAt(p) # c
  BY <1>1 DEF Placing, Sent
<1>14. Over \subseteq Popped
  BY DEF Over
<1>15. /\ \A x : x \in Pending' <=> \/ \E p \in Popped' \ Over' : x = Entry(TickAt(p))'
                                    \/ \E i \in DOMAIN queue' : x = Entry(queue[i])'
       /\ \A x : x \in Gone' <=> \E p \in Over' : x = Entry(TickAt(p))'
  <2>1. \A x : x \in Pending' <=> \E p \in Places' \ Over' : x = Entry(TickAt(p))'
    BY DEF Pending, TicksOf, Entry
  <2>2. \A p \in Popped : p[1] # None /\ p \in Places'
    BY <1>2, PoppedIs DEF Places, PoppedSame
  <2>3. \A i \in DOMAIN queue' : /\ <<None, i>> \in Places' /\ <<None, i>> \notin Popped
                                 /\ Entry(TickAt(<<None, i>>))' = Entry(queue[i])'
    BY <2>2 DEF Places, TickAt
  <2>4. \A p \in Places' : p \in Popped \/ \E i \in DOMAIN queue' : p = <<None, i>>
    BY <1>2 DEF Places, PoppedSame
  <2>5. \A x : x \in Gone' <=> \E p \in Over' : x = Entry(TickAt(p))'
    BY DEF Gone, TicksOf, Entry
  <2>6. Popped' = Popped
    BY <1>2 DEF PoppedSame
  <2>7. ASSUME NEW x, x \in Pending'
        PROVE  \/ \E p \in Popped' \ Over' : x = Entry(TickAt(p))'
               \/ \E i \in DOMAIN queue' : x = Entry(queue[i])'
    <3>1. PICK p \in Places' \ Over' : x = Entry(TickAt(p))'
      BY <2>1, <2>7
    <3>2. CASE p \in Popped
      BY <2>6, <3>1, <3>2
    <3>3. CASE \E i \in DOMAIN queue' : p = <<None, i>>
      <4>1. PICK i \in DOMAIN queue' : p = <<None, i>>
        BY <3>3
      <4>2. Entry(TickAt(p))' = Entry(queue[i])'
        BY <2>3, <4>1
      <4> QED
        BY <3>1, <4>2
    <3> QED
      BY <2>4, <3>1, <3>2, <3>3
  <2>8. ASSUME NEW p \in Popped' \ Over', NEW x, x = Entry(TickAt(p))'
        PROVE  x \in Pending'
    BY <2>1, <2>2, <2>6, <2>8
  <2>9. ASSUME NEW i \in DOMAIN queue', NEW x, x = Entry(queue[i])'
        PROVE  x \in Pending'
    <3>1. <<None, i>> \in Places' \ Over' /\ x = Entry(TickAt(<<None, i>>))'
      BY <1>6, <1>14, <2>3, <2>9
    <3> QED
      BY <2>1, <3>1
  <2> QED
    BY <2>5, <2>7, <2>8, <2>9
<1>16. \A x : (x \in Pending' <=> x \in Pending \cup {Entry(c)}) /\ (x \in Gone' <=> x \in Gone)
  BY <1>2, <1>4, <1>6, <1>8, <1>10, <1>12, <1>14, <1>15, PendingIs DEF PoppedSame
<1>17. Entry(c) \notin Pending \cup Gone
  <2>1. \A p \in Places : Entry(TickAt(p)) # Entry(c)
    BY <1>13, EntriesApart
  <2> QED
    BY <2>1, PendingIs
<1>18. Pending' \subseteq Pending \cup {Entry(c)} /\ Pending \cup {Entry(c)} \subseteq Pending'
       /\ Gone' \subseteq Gone /\ Gone \subseteq Gone'
  BY <1>16
<1> QED
  BY <1>17, <1>18

\* What PendingIs says, of the state that follows.
PendingForm ==
  /\ \A x : x \in Pending <=> \/ \E p \in Popped \ Over : x = Entry(TickAt(p))
                              \/ \E i \in DOMAIN queue : x = Entry(queue[i])
  /\ \A x : x \in Gone <=> \E p \in Over : x = Entry(TickAt(p))
  /\ Over \subseteq Popped

LEMMA PendingFormNow == Shape => PendingForm
BY PendingIs DEF PendingForm

LEMMA PendingFormNext == Shape' => PendingForm'
BY PendingFormNow, PTL

\* The ticks a flush pops stay pending, and go when it drops them.
Heads == {Entry(queue[i]) : i \in 1 .. PopSize}

LEMMA TicksPop ==
  ASSUME Shape, Shape', Placing, NEW c \in Calls, Pops(c)
  PROVE  /\ Heads \subseteq Pending
         /\ ~ Ended(c) => Pending' = Pending /\ Gone' = Gone
         /\ Ended(c) => Pending' = Pending \ Heads /\ Gone' = Gone \cup Heads
<1>1. /\ Forward(c) /\ pc[c] = "pop" /\ queue' = Rest /\ queue \in Seq(Calls)
      /\ pc'[c] # "done" \/ Ended(c)
  BY DEF Pops, Moved, Shape, Tables
<1>2. PICK n \in Nat : n = PopSize
  BY <1>1, PopFacts
<1>3. PICK l \in Nat : l = Len(queue)
  BY <1>1
<1>4. /\ n <= l /\ DOMAIN queue = 1 .. l /\ DOMAIN queue' = 1 .. l - n
      /\ \A i \in 1 .. l - n : queue'[i] = queue[n + i]
  BY <1>1, <1>2, <1>3, PopFacts
<1>5. PICK Mine : Mine = {c} \X (1 .. n)
  OBVIOUS
<1>6. /\ Popped' = Popped \cup Mine /\ Popped \cap Mine = {}
      /\ \A p \in Popped : TickAt(p)' = TickAt(p) /\ p[1] # c
      /\ \A i \in 1 .. n : TickAt(<<c, i>>)' = queue[i] /\ i \in DOMAIN queue
  BY <1>2, <1>5, PopMoves
<1>7. \A i \in DOMAIN queue : KnownTick(queue[i])
  BY DEF Shape, Tables, QueueKnown
<1>8. \A p \in Popped : Entry(TickAt(p))' = Entry(TickAt(p))
  <2>1. \A p \in Popped : KnownTick(TickAt(p))
    BY KnownPlaces, PendingIs
  <2> QED
    BY <1>1, <1>6, <2>1, KnownStays DEF Entry
<1>9. \A i \in 1 .. n : Entry(TickAt(<<c, i>>))' = Entry(queue[i])
  <2>1. ASSUME NEW i \in 1 .. n
        PROVE  Entry(TickAt(<<c, i>>))' = Entry(queue[i])
    <3>1. PICK t : t = queue[i]
      OBVIOUS
    <3>2. TickAt(<<c, i>>)' = t /\ Row(t)' = Row(t)
      BY <1>1, <1>6, <1>7, <3>1, KnownStays
    <3>3. Entry(TickAt(<<c, i>>))' = Entry(t)
      BY <3>2 DEF Entry
    <3> QED
      BY <3>1, <3>3
  <2> QED
    BY <2>1
<1>10. \A i \in 1 .. l - n : Entry(queue[i])' = Entry(queue[n + i]) /\ n + i \in DOMAIN queue
  <2>1. ASSUME NEW i \in 1 .. l - n
        PROVE  Entry(queue[i])' = Entry(queue[n + i]) /\ n + i \in DOMAIN queue
    <3>1. n + i \in DOMAIN queue
      BY <1>4
    <3>2. PICK t : t = queue[n + i]
      OBVIOUS
    <3>3. queue'[i] = t /\ Row(t)' = Row(t)
      BY <1>1, <1>4, <1>7, <3>1, <3>2, KnownStays
    <3>4. Entry(queue[i])' = Entry(t)
      BY <3>3 DEF Entry
    <3> QED
      BY <3>1, <3>2, <3>4
  <2> QED
    BY <2>1
<1>11. PendingForm /\ PendingForm'
  BY PendingFormNow, PendingFormNext
<1>12. \A x : x \in Pending <=> \/ \E p \in Popped \ Over : x = Entry(TickAt(p))
                                \/ \E i \in 1 .. n : x = Entry(queue[i])
                                \/ \E i \in 1 .. l - n : x = Entry(queue[n + i])
  <2>1. \A i \in DOMAIN queue : i \in 1 .. n \/ \E j \in 1 .. l - n : i = n + j
    <3>1. ASSUME NEW i \in DOMAIN queue, i \notin 1 .. n
          PROVE  i - n \in 1 .. l - n /\ i = n + (i - n)
      BY <1>4, <3>1
    <3> QED
      BY <3>1
  <2>2. /\ \A i \in 1 .. n : i \in DOMAIN queue
        /\ \A i \in 1 .. l - n : n + i \in DOMAIN queue
    BY <1>6, <1>10
  <2> HIDE <1>4
  <2>3. \A x : x \in Pending <=> \/ \E p \in Popped \ Over : x = Entry(TickAt(p))
                                 \/ \E i \in DOMAIN queue : x = Entry(queue[i])
    BY <1>11 DEF PendingForm
  <2>4. \A x : (\E i \in DOMAIN queue : x = Entry(queue[i])) <=>
                 \/ \E i \in 1 .. n : x = Entry(queue[i])
                 \/ \E i \in 1 .. l - n : x = Entry(queue[n + i])
    BY <2>1, <2>2
  <2> QED
    BY <2>3, <2>4
<1>13. \A x : x \in Gone <=> \E p \in Over : x = Entry(TickAt(p))
  BY <1>11 DEF PendingForm
<1>14. Over' = IF pc'[c] = "done" THEN Over \cup Mine ELSE Over
  <2>1. \A p \in Popped : pc'[p[1]] = pc[p[1]]
    BY <1>1, <1>6, PoppedIs DEF Forward, OnlyCall
  <2>2. \A p \in Mine : p[1] = c
    BY <1>5
  <2>3. \A p : p \in Over' <=> p \in (IF pc'[c] = "done" THEN Over \cup Mine ELSE Over)
    BY <1>6, <2>1, <2>2 DEF Over
  <2>4. PICK S : S = IF pc'[c] = "done" THEN Over \cup Mine ELSE Over
    OBVIOUS
  <2>5. Over' \subseteq S /\ S \subseteq Over'
    BY <2>3, <2>4
  <2> QED
    BY <2>4, <2>5
<1>15. /\ \A x : x \in Pending' <=> \/ \E p \in Popped' \ Over' : x = Entry(TickAt(p))'
                                    \/ \E i \in DOMAIN queue' : x = Entry(queue[i])'
       /\ \A x : x \in Gone' <=> \E p \in Over' : x = Entry(TickAt(p))'
  BY <1>11 DEF PendingForm
<1>16. /\ \A p \in Mine : \E i \in 1 .. n : p = <<c, i>>
       /\ \A i \in 1 .. n : <<c, i>> \in Mine
  BY <1>5
<1>17. /\ \A p \in Mine : \E i \in 1 .. n : Entry(TickAt(p))' = Entry(queue[i])
       /\ \A i \in 1 .. n : \E p \in Mine : Entry(TickAt(p))' = Entry(queue[i])
  <2>1. ASSUME NEW p \in Mine
        PROVE  \E i \in 1 .. n : Entry(TickAt(p))' = Entry(queue[i])
    <3>1. PICK i \in 1 .. n : p = <<c, i>>
      BY <1>16
    <3> QED
      BY <1>9, <3>1
  <2> QED
    BY <1>9, <1>16, <2>1
<1>18. Over \subseteq Popped
  BY DEF Over
<1>19. \A x : x \in Heads <=> \E i \in 1 .. n : x = Entry(queue[i])
  BY <1>2 DEF Heads
<1>20. Heads \subseteq Pending
  BY <1>12, <1>19
<1>21. \A x : (\E i \in DOMAIN queue' : x = Entry(queue[i])') <=>
              \E i \in 1 .. l - n : x = Entry(queue[n + i])
  BY <1>4, <1>10
<1>22. CASE pc'[c] # "done"
  <2>1. Over' = Over
    BY <1>14, <1>22
  <2>2. \A x : (\E p \in Popped' \ Over' : x = Entry(TickAt(p))') <=>
                 \/ \E p \in Popped \ Over : x = Entry(TickAt(p))
                 \/ \E i \in 1 .. n : x = Entry(queue[i])
    BY <1>6, <1>8, <1>17, <1>18, <2>1
  <2>3. \A x : (x \in Pending' <=> x \in Pending) /\ (x \in Gone' <=> x \in Gone)
    BY <1>8, <1>12, <1>13, <1>15, <1>18, <1>21, <2>1, <2>2
  <2>4. Gone' \subseteq Gone /\ Gone \subseteq Gone' /\ Pending' \subseteq Pending /\ Pending \subseteq Pending'
    BY <2>3
  <2>5. ~ Ended(c)
    BY <1>22 DEF Ended
  <2> QED
    BY <1>20, <2>4, <2>5
<1>23. CASE pc'[c] = "done"
  <2>1. Over' = Over \cup Mine
    BY <1>14, <1>23
  <2>2. Popped' \ Over' = Popped \ Over
    BY <1>6, <1>18, <2>1
  <2>3. \A x : x \in Gone' <=> x \in Gone \/ x \in Heads
    BY <1>8, <1>13, <1>15, <1>17, <1>18, <1>19, <2>1
  <2>4. \A x : x \in Pending' <=> \/ \E p \in Popped \ Over : x = Entry(TickAt(p))
                                  \/ \E i \in 1 .. l - n : x = Entry(queue[n + i])
    BY <1>8, <1>15, <1>21, <2>2
  <2>5. /\ \A p \in Popped : p \in Places /\ p[1] # None
        /\ \A i \in DOMAIN queue : <<None, i>> \in Places /\ TickAt(<<None, i>>) = queue[i]
    BY PendingIs, PoppedIs
  <2>6. \A p \in Popped, i \in DOMAIN queue : Entry(TickAt(p)) # Entry(queue[i])
    <3>1. ASSUME NEW p \in Popped, NEW i \in DOMAIN queue, Entry(TickAt(p)) = Entry(queue[i])
          PROVE  FALSE
      <4>1. TickAt(p) = TickAt(<<None, i>>)
        BY <2>5, <3>1, EntriesApart
      <4>2. p = <<None, i>>
        BY <2>5, <4>1 DEF Placing
      <4> QED
        BY <2>5, <4>2
    <3> QED
      BY <3>1
  <2>7. \A i, j \in DOMAIN queue : Entry(queue[i]) = Entry(queue[j]) => i = j
    <3>1. ASSUME NEW i \in DOMAIN queue, NEW j \in DOMAIN queue, Entry(queue[i]) = Entry(queue[j])
          PROVE  i = j
      <4>1. TickAt(<<None, i>>) = TickAt(<<None, j>>)
        BY <2>5, <3>1, EntriesApart
      <4>2. <<None, i>> = <<None, j>>
        BY <2>5, <4>1 DEF Placing
      <4> QED
        BY <4>2
    <3> QED
      BY <3>1
  <2>8. \A i \in 1 .. n, j \in 1 .. l - n : Entry(queue[i]) # Entry(queue[n + j])
    <3>1. \A i \in 1 .. n, j \in 1 .. l - n : i # n + j
      OBVIOUS
    <3> QED
      BY <1>6, <1>10, <2>7, <3>1
  <2>9. \A x : x \in Pending' <=> x \in Pending /\ x \notin Heads
    <3>1. ASSUME NEW x, x \in Pending'
          PROVE  x \in Pending /\ x \notin Heads
      <4>1. CASE \E p \in Popped \ Over : x = Entry(TickAt(p))
        BY <1>6, <1>12, <1>19, <2>6, <4>1
      <4>2. CASE \E i \in 1 .. l - n : x = Entry(queue[n + i])
        BY <1>12, <1>19, <2>8, <4>2
      <4> QED
        BY <2>4, <3>1, <4>1, <4>2
    <3>2. ASSUME NEW x, x \in Pending, x \notin Heads
          PROVE  x \in Pending'
      <4>1. ~ \E i \in 1 .. n : x = Entry(queue[i])
        BY <1>19, <3>2
      <4> QED
        BY <1>12, <2>4, <3>2, <4>1
    <3> QED
      BY <3>1, <3>2
  <2>10. /\ Gone' \subseteq Gone \cup Heads /\ Gone \cup Heads \subseteq Gone'
         /\ Pending' \subseteq Pending \ Heads /\ Pending \ Heads \subseteq Pending'
    BY <2>3, <2>9
  <2>11. Ended(c)
    BY <1>1, <1>23
  <2> QED
    BY <1>20, <2>10, <2>11
<1> QED
  BY <1>22, <1>23

\* A commit inserts its batch and rolls the cached prices forward as Ticker says.
LEMMA CommitInserts ==
  ASSUME Shape, Keys, NEW c \in Calls, Commits(c)
  PROVE  Feed!Insert(RowsOf(Ticks(c)))
<1>1. /\ snapshots' = snapshots \cup RowsOf(inserted[c]) /\ inserted[c] \subseteq Ticks(c)
      /\ Writing(c) /\ pc[c] = "commit"
  BY InsertedAreTicks DEF Commits
<1>2. /\ \A t, u \in inserted[c] : SameKey(Row(t), Row(u)) => t = u
      /\ \A t \in inserted[c], s \in snapshots : ~ SameKey(Row(t), s)
      /\ Inserting(c)
  BY <1>1 DEF Keys
<1>3. \A i \in DOMAIN batch[c] : Covered(c, i)
  BY <1>1, <1>2 DEF Inserting, Passed
<1>4. \A t \in inserted[c] : Row(t) \in snapshots' /\ Row(t) \in RowsOf(Ticks(c))
  BY <1>1 DEF RowsOf
<1>5. ASSUME NEW r \in snapshots' \ snapshots
      PROVE  r \in RowsOf(Ticks(c)) /\ \A s \in snapshots' : SameKey(r, s) => r = s
  <2>1. PICK t \in inserted[c] : r = Row(t)
    BY <1>1, <1>5 DEF RowsOf
  <2>2. ASSUME NEW s \in snapshots', SameKey(r, s)
        PROVE  r = s
    <3>1. s \notin snapshots
      BY <1>2, <2>1, <2>2
    <3>2. PICK u \in inserted[c] : s = Row(u)
      BY <1>1, <2>2, <3>1 DEF RowsOf
    <3> QED
      BY <1>2, <2>1, <2>2, <3>2
  <2> QED
    BY <1>4, <2>1, <2>2
<1>6. ASSUME NEW r \in RowsOf(Ticks(c))
      PROVE  \E s \in snapshots' : SameKey(s, r)
  <2>1. PICK i \in DOMAIN batch[c] : r = Row(batch[c][i])
    BY DEF RowsOf, Ticks
  <2>2. CASE batch[c][i] \in inserted[c]
    BY <1>4, <2>1, <2>2 DEF SameKey
  <2>3. CASE \E s \in snapshots : SameKey(s, Row(batch[c][i]))
    BY <1>1, <2>1, <2>3
  <2>4. CASE \E j \in Passed(c) : /\ j < i /\ batch[c][j] \in inserted[c]
                                  /\ SameKey(Row(batch[c][j]), Row(batch[c][i]))
    BY <1>4, <2>1, <2>4
  <2> QED
    BY <1>3, <2>1, <2>2, <2>3, <2>4 DEF Covered
<1>7. snapshots \subseteq snapshots'
  BY <1>1
<1>8. \A r, s : Feed!SameKey(r, s) <=> SameKey(r, s)
  BY DEF Feed!SameKey, SameKey
<1>9. \A r \in RowsOf(Ticks(c)) : \E s \in snapshots' : Feed!SameKey(r, s)
  BY <1>6, <1>8, SameKeyTurns
<1>10. \A r \in snapshots' \ snapshots :
         r \in RowsOf(Ticks(c)) /\ \A s \in snapshots' : Feed!SameKey(r, s) => r = s
  BY <1>5, <1>8
<1> QED
  BY <1>7, <1>9, <1>10 DEF Feed!Insert

Newer(rows, o) == {r \in rows : r.outcome = o /\ (latest[o] = None \/ latest[o].at < r.at)}

LEMMA CommitRollsForward ==
  ASSUME Shape, NEW c \in Calls, Commits(c), Rolling(c)
  PROVE  Feed!RollForward(RowsOf(Ticks(c)))
<1>1. /\ batch[c] \in Seq(Calls) /\ pc[c] # "idle"
  BY DEF Shape, Functions, Commits, Ended
<1>2. \A t \in Ticks(c) : KnownTick(t)
  BY DEF Shape, CallOK, Hands
<1>3. ASSUME NEW o \in Outcomes
      PROVE  IF Newer(RowsOf(Ticks(c)), o) = {} THEN latest'[o] = latest[o]
             ELSE /\ latest'[o] \in Newer(RowsOf(Ticks(c)), o)
                  /\ \A r \in Newer(RowsOf(Ticks(c)), o) : r.at <= latest'[o].at
  <2>1. CASE Moves(c, o)
    <3>1. PICK t \in rolled[c] : /\ Row(t).outcome = o /\ latest'[o] = Row(t) /\ RollsForward(t)
                                 /\ \E i \in FirstOnes(batch[c]) : t = NewestLike(batch[c], i)
      BY <2>1 DEF Moves
    <3>2. PICK i \in FirstOnes(batch[c]) : t = NewestLike(batch[c], i)
      BY <3>1
    <3>3. i \in DOMAIN batch[c]
      BY DEF FirstOnes
    <3>4. PICK k \in DOMAIN batch[c] :
            /\ NewestLike(batch[c], i) = batch[c][k] /\ batch[c][k] \in Ticks(c)
            /\ Row(batch[c][k]).outcome = Row(batch[c][i]).outcome
            /\ \A j \in Like(batch[c], i) : AtLeastAsNew(batch[c], k, j)
      BY <3>3, NewestFacts
    <3>5. Row(t) \in Newer(RowsOf(Ticks(c)), o)
      BY <3>1, <3>2, <3>4 DEF Newer, RowsOf, RollsForward
    <3>6. ASSUME NEW r \in Newer(RowsOf(Ticks(c)), o)
          PROVE  r.at <= Row(t).at
      <4>1. PICK j \in DOMAIN batch[c] : r = Row(batch[c][j])
        BY DEF Newer, RowsOf, Ticks
      <4>2. Row(batch[c][j]).outcome = o
        BY <4>1 DEF Newer
      <4>3. j \in Like(batch[c], i)
        BY <3>1, <3>2, <3>4, <4>2 DEF Like
      <4>4. AtLeastAsNew(batch[c], k, j) /\ t = batch[c][k]
        BY <3>2, <3>4, <4>3
      <4>5. Row(batch[c][j]).at \in Nat /\ Row(batch[c][k]).at \in Nat
        BY <1>2, KnownFields DEF Ticks
      <4> QED
        BY <4>1, <4>4, <4>5 DEF AtLeastAsNew
    <3> QED
      BY <3>1, <3>5, <3>6
  <2>2. CASE (\A t \in rolled[c] : Row(t).outcome # o) /\ latest'[o] = latest[o]
    <3>1. ASSUME NEW r \in Newer(RowsOf(Ticks(c)), o)
          PROVE  FALSE
      <4>1. PICK j \in DOMAIN batch[c] : r = Row(batch[c][j])
        BY DEF Newer, RowsOf, Ticks
      <4>2. Row(batch[c][j]).outcome = o /\ (latest[o] = None \/ latest[o].at < Row(batch[c][j]).at)
        BY <4>1 DEF Newer
      <4>3. PICK f \in FirstOnes(batch[c]) : j \in Like(batch[c], f)
        BY <1>1, FirstOfLike
      <4>4. f \in DOMAIN batch[c] /\ Row(batch[c][f]).outcome = o
        BY <4>2, <4>3 DEF FirstOnes, Like
      <4>5. PICK k \in DOMAIN batch[c] :
              /\ NewestLike(batch[c], f) = batch[c][k] /\ batch[c][k] \in Ticks(c)
              /\ Row(batch[c][k]).outcome = Row(batch[c][f]).outcome
              /\ \A i \in Like(batch[c], f) : AtLeastAsNew(batch[c], k, i)
        BY <4>4, NewestFacts
      <4>6. AtLeastAsNew(batch[c], k, j)
        BY <4>3, <4>5
      <4>7. Row(batch[c][j]).at \in Nat /\ Row(batch[c][k]).at \in Nat
        BY <1>2, KnownFields DEF Ticks
      <4>8. latest[o] = None \/ latest[o].at < Row(batch[c][k]).at
        <5>1. CASE latest[o] = None
          BY <5>1
        <5>2. CASE latest[o] # None
          <6>1. latest[o] \in Snapshot
            BY <5>2 DEF Shape, Tables
          <6>2. latest[o].at \in Nat
            BY <6>1, FeedAssumption DEF Snapshot
          <6> QED
            BY <4>2, <4>6, <4>7, <5>2, <6>2 DEF AtLeastAsNew
        <5> QED
          BY <5>1, <5>2
      <4>9. RollsForward(NewestLike(batch[c], f))
        BY <4>4, <4>5, <4>8 DEF RollsForward
      <4>10. Applied(c) = FirstOnes(batch[c])
        BY CommitMoves
      <4>11. NewestLike(batch[c], f) \in rolled[c]
        BY <4>3, <4>9, <4>10 DEF Rolling
      <4> QED
        BY <2>2, <4>4, <4>5, <4>11
    <3> QED
      BY <2>2, <3>1
  <2> QED
    BY <2>1, <2>2, CommitMoves
<1> QED
  BY <1>3 DEF Feed!RollForward, Newer

LEMMA TicksLeave ==
  ASSUME NEW T, T \subseteq Pending, Pending' = Pending \ T, Gone' = Gone \cup T
  PROVE  /\ T # {} => Feed!Leave(T) /\ T = Pending \ Pending'
         /\ T = {} => Pending' = Pending /\ Gone' = Gone
<1>1. T = Pending \ Pending'
  OBVIOUS
<1> QED
  BY <1>1 DEF Feed!Leave, Pending, Gone

LEMMA TicksLost ==
  ASSUME NEW T, T \subseteq Pending, Pending' = Pending \ T, Gone' = Gone \cup T,
         UNCHANGED <<snapshots, latest>>
  PROVE  [Feed!Next]_(Feed!vars)
<1>1. CASE T = {}
  BY <1>1, TicksLeave DEF Feed!vars, Pending, Gone
<1>2. CASE T # {}
  <2>1. Feed!Leave(Pending \ Pending')
    BY <1>2, TicksLeave
  <2>2. Feed!Lose
    BY <2>1 DEF Feed!Lose, Pending
  <2> QED
    BY <2>2 DEF Feed!Next
<1> QED
  BY <1>1, <1>2

LEMMA FlushLands ==
  ASSUME Shape, Placing, Keys, NEW c \in Calls, Commits(c), Rolling(c), req[c].op = "flush"
  PROVE  [Feed!Next]_(Feed!vars)
<1>1. Ended(c) /\ c \in Flushes /\ ~ Pops(c) /\ ~ Pushes(c) /\ Kind(c)
  <2>1. req[c] # None
    BY RequestFields DEF Shape, CallOK, Where, Commits, Ended
  <2> QED
    BY <2>1 DEF Commits, Pops, Pushes, Kind, Flushes
<1>2. PICK T : T = TicksOf(Own(c))
  OBVIOUS
<1>3. T \subseteq Pending /\ Pending' = Pending \ T /\ Gone' = Gone \cup T
  BY <1>1, <1>2, TicksGo
<1>4. \A x : x \in T <=> \E t \in Ticks(c) : x = Entry(t)
  BY <1>1, <1>2, OwnIs
<1>5. \A t : Entry(t).row = Row(t)
  BY DEF Entry
<1>6. {x.row : x \in T} = RowsOf(Ticks(c))
  <2>1. {x.row : x \in T} \subseteq RowsOf(Ticks(c)) /\ RowsOf(Ticks(c)) \subseteq {x.row : x \in T}
    BY <1>4, <1>5 DEF RowsOf
  <2> QED
    BY <2>1
<1>7. Feed!Insert(RowsOf(Ticks(c))) /\ Feed!RollForward(RowsOf(Ticks(c)))
  BY CommitInserts, CommitRollsForward
<1>8. CASE T = {}
  <2>1. Ticks(c) = {}
    BY <1>4, <1>8
  <2>2. inserted[c] = {} /\ rolled[c] = {}
    BY <2>1, InsertedAreTicks
  <2>3. snapshots' = snapshots
    BY <2>2 DEF Commits, RowsOf
  <2>4. latest' = latest
    BY <2>2 DEF Commits, Shape, Tables
  <2> QED
    BY <1>3, <1>8, <2>3, <2>4, TicksLeave DEF Feed!vars, Pending, Gone
<1>9. CASE T # {}
  <2>1. Feed!Leave(T) /\ T = Pending \ Pending'
    BY <1>3, <1>9, TicksLeave
  <2>2. /\ Feed!Leave(Pending \ Pending')
        /\ Feed!Insert({x.row : x \in Pending \ Pending'})
        /\ Feed!RollForward({x.row : x \in Pending \ Pending'})
    BY <1>6, <1>7, <2>1
  <2>3. Feed!Land
    BY <2>2 DEF Feed!Land, Pending
  <2> QED
    BY <2>3 DEF Feed!Next
<1> QED
  BY <1>8, <1>9

LEMMA RecordLands ==
  ASSUME Shape, Placing, Keys, NEW c \in Calls, Commits(c), Rolling(c), req[c].op = "record"
  PROVE  [Feed!Next]_(Feed!vars)
<1>1. c \notin Flushes /\ ~ Pops(c) /\ ~ Pushes(c) /\ Kind(c)
  BY DEF Commits, Pops, Pushes, Kind, Flushes
<1>2. Pending' = Pending /\ Gone' = Gone
  BY <1>1, TicksGo
<1>3. /\ Writing(c) /\ pc[c] = "commit" /\ batch[c] = <<c>>
      /\ snapshots' = snapshots \cup RowsOf(inserted[c])
  BY DEF Commits, Shape, CallOK, Hands
<1>4. c \in inserted[c] /\ \A s \in snapshots : ~ SameKey(Row(c), s)
  BY <1>3 DEF Keys, Inserting
<1>5. Ticks(c) = {c}
  BY <1>3 DEF Ticks
<1>6. RowsOf(Ticks(c)) = {Row(c)}
  BY <1>5 DEF RowsOf
<1>7. Row(c) \in snapshots' \ snapshots
  <2>1. Row(c) \in snapshots'
    BY <1>3, <1>4 DEF RowsOf
  <2>2. SameKey(Row(c), Row(c))
    BY DEF SameKey
  <2> QED
    BY <1>4, <2>1, <2>2
<1>8. \A s \in snapshots : ~ Feed!SameKey(Row(c), s)
  BY <1>4 DEF SameKey, Feed!SameKey
<1>9. Feed!Insert({Row(c)}) /\ Feed!RollForward({Row(c)})
  BY <1>6, CommitInserts, CommitRollsForward
<1>10. Feed!Record
  BY <1>2, <1>7, <1>8, <1>9 DEF Feed!Record, Pending, Gone
<1> QED
  BY <1>10 DEF Feed!Next

LEMMA StepMaps ==
  ASSUME Shape, Shape', Placing, Keys, Pricing, NEW c \in Calls, Kind(c)
  PROVE  [Feed!Next]_(Feed!vars)
<1>1. CASE Pushes(c)
  <2>1. /\ Pending' = Pending \cup {Entry(c)} /\ Entry(c) \notin Pending \cup Gone /\ Gone' = Gone
    BY <1>1, TicksCome
  <2>2. UNCHANGED <<snapshots, latest>>
    BY <1>1 DEF Pushes, postgres
  <2>3. Feed!Accept
    BY <2>1, <2>2 DEF Feed!Accept, Pending, Gone
  <2> QED
    BY <2>3 DEF Feed!Next
<1>2. CASE Pops(c)
  <2>1. UNCHANGED <<snapshots, latest>>
    BY <1>2 DEF Pops, postgres
  <2>2. /\ Heads \subseteq Pending
        /\ ~ Ended(c) => Pending' = Pending /\ Gone' = Gone
        /\ Ended(c) => Pending' = Pending \ Heads /\ Gone' = Gone \cup Heads
    BY <1>2, TicksPop
  <2>3. CASE ~ Ended(c)
    BY <2>1, <2>2, <2>3 DEF Feed!vars, Pending, Gone
  <2>4. CASE Ended(c)
    BY <2>1, <2>2, <2>4, TicksLost
  <2> QED
    BY <2>3, <2>4
<1>3. CASE Commits(c)
  <2>1. Rolling(c)
    BY <1>3 DEF Pricing, Commits
  <2>2. req[c].op \in {"record", "flush"}
    BY <1>3 DEF Commits, Writing
  <2> QED
    BY <1>3, <2>1, <2>2, FlushLands, RecordLands
<1>4. CASE Leaves(c)
  <2>1. UNCHANGED <<snapshots, latest>> /\ Ended(c)
    BY <1>4 DEF Leaves
  <2>2. ~ Pops(c) /\ ~ Pushes(c)
    BY <1>4, ReportFields DEF Leaves, Pops, Pushes, Moved, Ended, Shape, Tables
  <2>3. /\ TicksOf(Own(c)) \subseteq Pending
        /\ Pending' = Pending \ TicksOf(Own(c)) /\ Gone' = Gone \cup TicksOf(Own(c))
    BY <2>1, <2>2, TicksGo
  <2> QED
    BY <2>1, <2>3, TicksLost
<1>5. CASE ~ Pushes(c) /\ ~ Pops(c) /\ ~ Commits(c) /\ ~ Leaves(c)
  <2>1. Light(c) \/ Begins(c) \/ Inserts(c) \/ Refers(c) \/ Applies(c)
    BY <1>5 DEF Kind
  <2>2. ~ Ended(c) /\ UNCHANGED <<snapshots, latest>>
    BY <2>1 DEF Light, Begins, Inserts, RowStep, Refers, Applies, Moved, Ended, TablesSame, postgres
  <2>3. Pending' = Pending /\ Gone' = Gone
    BY <1>5, <2>2, TicksGo
  <2> QED
    BY <2>2, <2>3 DEF Feed!vars, Pending, Gone
<1> QED
  BY <1>1, <1>2, <1>3, <1>4, <1>5

\* TicksAtomically.  The round trips of both paths, however they interleave, and
\* whatever crashes, deadlocks or fails in between, accept, land and lose ticks as
\* the indivisible steps of Ticker do, each tick with its whole batch and once; no
\* moment of an outcome gets a second row, and the cached price only moves forward,
\* in the step in which the rows land (flush_odds_queue, record_odds_update,
\* _apply_latest_price).
THEOREM FeedImplementsTicker == Spec => TicksAtomically
<1>1. Init => Feed!Init
  <2> SUFFICES ASSUME Init PROVE Feed!Init
    OBVIOUS
  <2>1. Popped = {} /\ Places = {}
    BY FeedAssumption DEF Init, Popped, Places, Flushes
  <2>2. Over = {}
    BY <2>1 DEF Over
  <2>3. Pending = {} /\ Gone = {}
    BY <2>1, <2>2, EntryIs DEF Pending, Gone
  <2> QED
    BY <2>3 DEF Init, Feed!Init, Pending, Gone
<1>2. ASSUME Shape, Shape', Placing, Keys, Pricing, [Next]_vars
      PROVE  [Feed!Next]_(Feed!vars)
  <2>1. CASE CallsRest
    <3>1. Places' = Places /\ Over' = Over
      BY <2>1 DEF CallsRest, Places, Popped, Flushes, Over, work
    <3>2. \A p : Entry(TickAt(p))' = Entry(TickAt(p))
      <4>1. \A p : TickAt(p)' = TickAt(p)
        BY <2>1 DEF CallsRest, TickAt, work
      <4>2. \A t : Row(t)' = Row(t)
        BY <2>1 DEF CallsRest, Row
      <4> QED
        BY <4>1, <4>2 DEF Entry
    <3>3. /\ \A x : x \in Pending' <=> \E p \in Places' \ Over' : x = Entry(TickAt(p))'
          /\ \A x : x \in Gone' <=> \E p \in Over' : x = Entry(TickAt(p))'
      BY DEF Pending, Gone, TicksOf, Entry
    <3>4. /\ \A x : x \in Pending <=> \E p \in Places \ Over : x = Entry(TickAt(p))
          /\ \A x : x \in Gone <=> \E p \in Over : x = Entry(TickAt(p))
      BY EntryIs DEF Pending, Gone
    <3>5. Pending' \subseteq Pending /\ Pending \subseteq Pending' /\ Gone' \subseteq Gone /\ Gone \subseteq Gone'
      BY <3>1, <3>2, <3>3, <3>4
    <3> QED
      BY <2>1, <3>5 DEF CallsRest, Feed!vars, Pending, Gone
  <2>2. CASE \E c \in Calls : Kind(c)
    BY <1>2, <2>2, StepMaps
  <2> QED
    BY <1>2, <2>1, <2>2, NextKinds
<1> QED
  BY <1>1, <1>2, ShapeHolds, PlacingHolds, KeysHolds, PricingHolds, PTL
     DEF Spec, TicksAtomically, Feed!Spec
=============================================================================
