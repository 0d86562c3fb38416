------------------------------ MODULE Betting ------------------------------
(***************************************************************************)
(* operations/betting.py as PostgreSQL runs it at READ COMMITTED: every    *)
(* call of place_bet, settle_outcome and cancel_event is a transaction,    *)
(* one action per SQL statement.  A statement waits for the row locks it   *)
(* asks for, reads what is committed when it has them, and writes become   *)
(* visible to others at the commit.  A transaction that deadlocks is       *)
(* rolled back by the database and run again by retry_on_conflict.         *)
(*                                                                         *)
(* A call answers once.  A client that retries, or clicks twice, is        *)
(* another call with the same idempotency key.                             *)
(***************************************************************************)
EXTENDS BettingTables, RowLocks

CONSTANTS
  Requests,     \* what callers may ask for
  UserIds, OutcomeIds, EventIds,   \* ids callers may name, some without a row
  MaxOddsAge,   \* MAX_ODDS_AGE
  MaxAttempts   \* retry_on_conflict(attempts)

PlaceRequest  == [op : {"place"}, user : UserIds, outcome : OutcomeIds,
                  stake : Stakes, session : Sessions \cup {None}, key : Keys]
SettleRequest == [op : {"settle"}, outcome : OutcomeIds, won : BOOLEAN]
CancelRequest == [op : {"cancel"}, event : EventIds]

ASSUME BettingAssumption ==
  /\ Requests \subseteq PlaceRequest \cup SettleRequest \cup CancelRequest
  /\ None \notin Requests
  /\ Users \subseteq UserIds /\ Outcomes \subseteq OutcomeIds /\ Events \subseteq EventIds
  /\ 0 \in Times
  /\ MaxOddsAge \in Nat
  /\ MaxAttempts \in Nat \ {0}

VARIABLES
  eventStatus, outcomeStatus, snapshots, bets, payments,  \* as in Wagers
  endedSessions,  \* streaming_sessions with ended_at set
  now,            \* the clock, counted in the units of MaxOddsAge
  req,            \* what each call was asked
  pc,             \* the statement each call executes next
  attempt,        \* which run of retry_on_conflict's loop it is in
  held,           \* the row locks its transaction holds
  snap,           \* place_bet: snap, the price read
  rows,           \* settle_outcome, cancel_event: rows, the bets read
  reply           \* its answer

database == <<eventStatus, outcomeStatus, snapshots, bets, payments, endedSessions, now>>
calls    == <<req, pc, attempt, held, snap, rows, reply>>
tables   == <<eventStatus, outcomeStatus, snapshots, bets, payments>>
vars     == <<database, calls>>

W == INSTANCE Wagers

Labels  == {"idle", "user", "key", "outcomes", "outcome", "event", "price", "session",
            "bet", "payment", "rows", "credit", "refer", "commit", "done"}
Answers == {"none", "placed", "replayed", "settled", "cancelled", "already",
            "rejected", "error"}
Silence == [kind |-> "none", bet |-> None]

Init ==
  /\ W!Init
  /\ endedSessions = {}
  /\ now = 0
  /\ req = [c \in Calls |-> None]
  /\ pc = [c \in Calls |-> "idle"]
  /\ attempt = [c \in Calls |-> 1]
  /\ held = [c \in Calls |-> {}]
  /\ snap = [c \in Calls |-> None]
  /\ rows = [c \in Calls |-> {}]
  /\ reply = [c \in Calls |-> Silence]

-----------------------------------------------------------------------------
\* What a statement waits for.

At(c, op, label) == pc[c] = label /\ req[c].op = op

\* The event a call is about, and the outcomes whose bets it resolves.
EventFor(c)  == IF req[c].op = "cancel" THEN req[c].event ELSE EventOf[req[c].outcome]
MarketsOf(c) == IF req[c].op = "cancel" THEN OutcomesOf(req[c].event) ELSE {req[c].outcome}

\* ORDER BY outcome_id: of the event's outcomes cancel_event has not locked yet,
\* the first.
Unlocked(c) == {o \in OutcomesOf(req[c].event) : held[c] \cap ForUpdate("outcome", {o}) = {}}

\* Mutant: no ORDER BY, so that a second scan of the table may run the other way.
AnyUnlocked(c) ==
  {o \in Unlocked(c) : \A x \in Unlocked(c) :
     IF \E d \in Calls \ {c} : pc[d] = "outcomes" THEN o >= x ELSE o <= x}

FirstUnlocked(c) == {o \in Unlocked(c) : \A x \in Unlocked(c) : o <= x}

Due(c) == PendingOn(bets, MarketsOf(c))
SnapshotId(s) == <<s.outcome, s.at>>

\* The locks the statement at pc[c] takes.  One that locks several rows of
\* bets or users takes them in no fixed order and is granted them at once.
Wanted(c) ==
  CASE pc[c] = "user"     -> ForUpdate("user", {req[c].user} \cap Users)
    [] pc[c] = "outcome"  -> ForUpdate("outcome", {req[c].outcome} \cap Outcomes)
    [] pc[c] = "outcomes" -> ForUpdate("outcome", FirstUnlocked(c))
    [] pc[c] = "event"    -> ForUpdate("event", {EventFor(c)} \cap Events)
    [] pc[c] = "bet"      -> KeyShare("snapshot", {SnapshotId(snap[c])})
                               \cup KeyShare("session", {req[c].session} \ {None})
    [] pc[c] = "rows"     -> ForUpdate("bet", Due(c))
                               \cup ForUpdate("snapshot", {SnapshotId(bets[b].snap) : b \in Due(c)})
    [] pc[c] = "refer"    -> KeyShare("user", {bets[b].user : b \in rows[c]})
    [] OTHER              -> {}

NewBet(c) == [user |-> req[c].user, snap |-> snap[c], stake |-> Quantized(req[c].stake),
              session |-> req[c].session, status |-> "pending"]

\* The payments a call inserts, at the statement it is at or had when it passed it.
PaymentsOf(c) ==
  CASE req[c].op = "place"                 -> {Charge(c, NewBet(c), req[c].key)}
    [] req[c].op = "settle" /\ req[c].won  -> {PayoutOf(b, bets[b]) : b \in rows[c]}
    [] req[c].op = "settle" /\ ~req[c].won -> {}
    [] req[c].op = "cancel"                -> {RefundOf(b, bets[b]) : b \in rows[c]}

\* Uncommitted rows in payments have the key.
InFlight(d, k) == pc[d] \in {"refer", "commit"} /\ \E q \in PaymentsOf(d) : q.key = k

\* Transactions that have inserted a key the statement inserts, and have not ended.
SameKeyInFlight(c) ==
  {d \in Calls \ {c} : \E p \in PaymentsOf(c) : InFlight(d, p.key)}

Inserts(c) == pc[c] \in {"payment", "credit"}

\* Transactions that keep a statement waiting for their keys.
KeyHolders(c) == IF Inserts(c) THEN SameKeyInFlight(c) ELSE {}

WaitsFor == [c \in Calls |-> Holders(held, c, Wanted(c)) \cup KeyHolders(c)]

-----------------------------------------------------------------------------
\* How a statement ends.

\* The statement has its locks and the transaction goes on at label.
Statement(c, label) ==
  /\ held' = [held EXCEPT ![c] = @ \cup Wanted(c)]
  /\ pc' = [pc EXCEPT ![c] = label]
  /\ UNCHANGED <<database, req, attempt, reply>>

Proceed(c, label) == Statement(c, label) /\ UNCHANGED <<snap, rows>>

\* The transaction ends, its locks are gone and the caller has its answer.
Answer(c, kind, b) ==
  /\ pc' = [pc EXCEPT ![c] = "done"]
  /\ reply' = [reply EXCEPT ![c] = [kind |-> kind, bet |-> b]]
  /\ held' = [held EXCEPT ![c] = {}]
  /\ snap' = [snap EXCEPT ![c] = None]
  /\ rows' = [rows EXCEPT ![c] = {}]
  /\ UNCHANGED <<req, attempt>>

\* The transaction ends without having written: an early return, or an
\* exception and the rollback of tx().
Return(c, kind) == Answer(c, kind, None) /\ UNCHANGED database
Reject(c) == Return(c, "rejected")

\* The answer to a commit may be lost with the connection.
Committed(c, kind, b) == Answer(c, kind, b) \/ Answer(c, "error", None)

Granted(c) == Holders(held, c, Wanted(c)) = {}

\* An INSERT into payments.  The unique index makes it wait for a transaction that
\* has inserted one of its keys, and fail if that one commits.
InsertPayments(c, label) ==
  /\ SameKeyInFlight(c) = {}
  /\ \/ W!Insertable(PaymentsOf(c)) /\ Proceed(c, label)
     \/ ~ W!Insertable(PaymentsOf(c)) /\ Return(c, "error")

FirstLabel(r) ==
  CASE r.op = "place"  -> "user"
    [] r.op = "settle" -> "outcome"
    [] r.op = "cancel" -> IF OutcomesOf(r.event) = {} THEN "event" ELSE "outcomes"

\* Mutant: no check of the quantized stake.
StartUnchecked(c, r) ==
  /\ pc[c] = "idle"
  /\ req' = [req EXCEPT ![c] = r]
  /\ pc' = [pc EXCEPT ![c] = FirstLabel(r)]
  /\ UNCHANGED <<database, attempt, held, snap, rows, reply>>

\* A caller calls; place_bet quantizes the stake before it opens a transaction.
Start(c, r) ==
  /\ pc[c] = "idle"
  /\ req' = [req EXCEPT ![c] = r]
  /\ IF r.op = "place" /\ Quantized(r.stake) <= 0
       THEN /\ pc' = [pc EXCEPT ![c] = "done"]
            /\ reply' = [reply EXCEPT ![c] = [kind |-> "rejected", bet |-> None]]
       ELSE /\ pc' = [pc EXCEPT ![c] = FirstLabel(r)]
            /\ UNCHANGED reply
  /\ UNCHANGED <<database, attempt, held, snap, rows>>

-----------------------------------------------------------------------------
\* place_bet

PlaceLockUser(c) ==
  /\ At(c, "place", "user") /\ Granted(c)
  /\ \/ req[c].user \in Users /\ Proceed(c, "key")
     \/ req[c].user \notin Users /\ Reject(c)

\* A payment that already has the key ends the call with its bet_id: whoever
\* asked, and be it a payout or refund of that bet or, without a bet_id, a
\* subscription.
PlaceCheckKey(c) ==
  LET prior == {p \in payments : p.key = req[c].key}
  IN  /\ At(c, "place", "key")
      /\ \/ prior = {} /\ Proceed(c, "outcome")
         \/ \E p \in prior : Answer(c, "replayed", p.bet) /\ UNCHANGED database

\* Mutant: the outcome is read without lock().
PlaceReadOutcome(c) ==
  /\ At(c, "place", "outcome")
  /\ req[c].outcome \in Outcomes /\ outcomeStatus[req[c].outcome] = "open"
  /\ pc' = [pc EXCEPT ![c] = "event"]
  /\ UNCHANGED <<database, req, attempt, held, snap, rows, reply>>

PlaceLockOutcome(c) ==
  LET open == req[c].outcome \in Outcomes /\ outcomeStatus[req[c].outcome] = "open"
  IN  /\ At(c, "place", "outcome") /\ Granted(c)
      /\ \/ open /\ Proceed(c, "event")
         \/ ~ open /\ Reject(c)

PlaceLockEvent(c) ==
  /\ At(c, "place", "event") /\ Granted(c)
  /\ \/ eventStatus[EventFor(c)] \in TakesBets /\ Proceed(c, "price")
     \/ eventStatus[EventFor(c)] \notin TakesBets /\ Reject(c)

\* Mutant: LIMIT 1 without the ORDER BY.
PlaceReadAnyPrice(c) ==
  /\ At(c, "place", "price")
  /\ \E s \in snapshots :
       /\ s.outcome = req[c].outcome /\ now - s.at <= MaxOddsAge
       /\ snap' = [snap EXCEPT ![c] = s]
  /\ Statement(c, IF req[c].session = None THEN "bet" ELSE "session")
  /\ UNCHANGED rows

PlaceReadPrice(c) ==
  LET newest == {s \in snapshots : IsNewest(s, snapshots, req[c].outcome)}
      fresh  == {s \in newest : now - s.at <= MaxOddsAge}
  IN  /\ At(c, "place", "price")
      /\ \/ \E s \in fresh :
              /\ snap' = [snap EXCEPT ![c] = s]
              /\ Statement(c, IF req[c].session = None THEN "bet" ELSE "session")
              /\ UNCHANGED rows
         \/ fresh = {} /\ Reject(c)

\* The session row is read without a lock.
PlaceCheckSession(c) ==
  LET good == OwnerOf[req[c].session] = req[c].user /\ req[c].session \notin endedSessions
  IN  /\ At(c, "place", "session")
      /\ \/ good /\ Proceed(c, "bet")
         \/ ~ good /\ Reject(c)

\* The foreign keys of the new bet lock the rows it names; a stake the column
\* cannot hold is a database error.
PlaceInsertBet(c) ==
  /\ At(c, "place", "bet") /\ Granted(c)
  /\ \/ Quantized(req[c].stake) <= MaxMoney /\ Proceed(c, "payment")
     \/ Quantized(req[c].stake) > MaxMoney /\ Return(c, "error")

\* Mutant: idempotency_key without UNIQUE.
PlaceInsertAnyPayment(c) == At(c, "place", "payment") /\ Proceed(c, "commit")

\* The foreign keys of the charge name rows the transaction has.
PlaceInsertPayment(c) == At(c, "place", "payment") /\ InsertPayments(c, "commit")

PlaceCommit(c) ==
  /\ At(c, "place", "commit")
  /\ bets' = [bets EXCEPT ![c] = NewBet(c)]
  /\ payments' = payments \cup PaymentsOf(c)
  /\ UNCHANGED <<eventStatus, outcomeStatus, snapshots, endedSessions, now>>
  /\ Committed(c, "placed", c)

-----------------------------------------------------------------------------
\* settle_outcome

\* Mutant: no early return when the outcome is already settled.
SettleLockAnyOutcome(c) ==
  /\ At(c, "settle", "outcome") /\ Granted(c)
  /\ req[c].outcome \in Outcomes /\ Proceed(c, "event")

SettleLockOutcome(c) ==
  LET o == req[c].outcome
  IN  /\ At(c, "settle", "outcome") /\ Granted(c)
      /\ \/ o \notin Outcomes /\ Reject(c)
         \/ o \in Outcomes /\ outcomeStatus[o] # "open" /\ Return(c, "already")
         \/ o \in Outcomes /\ outcomeStatus[o] = "open" /\ Proceed(c, "event")

SettleLockEvent(c) ==
  /\ At(c, "settle", "event") /\ Granted(c)
  /\ \/ eventStatus[EventFor(c)] = "cancelled" /\ Return(c, "already")
     \/ eventStatus[EventFor(c)] # "cancelled" /\ Proceed(c, "rows")

\* The pending bets and their prices, under lock; then the payouts if there
\* are any to insert.
SettleLockBets(c) ==
  /\ At(c, "settle", "rows") /\ Granted(c)
  /\ rows' = [rows EXCEPT ![c] = Due(c)]
  /\ Statement(c, IF req[c].won /\ Due(c) # {} THEN "credit" ELSE "commit")
  /\ UNCHANGED snap

\* Mutant: no limit on what the column of amounts holds, and no UNIQUE on that of keys.
SettleInsertAnyPayouts(c) == At(c, "settle", "credit") /\ Proceed(c, "refer")

\* One INSERT for all the payouts; its foreign keys then lock the winners' users
\* rows.
SettleInsertPayouts(c) == At(c, "settle", "credit") /\ InsertPayments(c, "refer")

SettleReferPayouts(c) == At(c, "settle", "refer") /\ Granted(c) /\ Proceed(c, "commit")

WithStatus(bs, status) ==
  [b \in Calls |-> IF b \in bs THEN [bets[b] EXCEPT !.status = status] ELSE bets[b]]

SettleCommit(c) ==
  LET result == IF req[c].won THEN "won" ELSE "lost"
  IN  /\ At(c, "settle", "commit")
      /\ outcomeStatus' = [outcomeStatus EXCEPT ![req[c].outcome] = result]
      /\ bets' = WithStatus(rows[c], result)
      /\ payments' = payments \cup PaymentsOf(c)
      /\ UNCHANGED <<eventStatus, snapshots, endedSessions, now>>
      /\ Committed(c, "settled", None)

-----------------------------------------------------------------------------
\* cancel_event

\* The outcomes of the event are locked one after the other, in order.
CancelLockOutcome(c) ==
  /\ At(c, "cancel", "outcomes") /\ Granted(c)
  /\ Proceed(c, IF Unlocked(c) = FirstUnlocked(c) THEN "event" ELSE "outcomes")

CancelLockEvent(c) ==
  LET e == req[c].event
  IN  /\ At(c, "cancel", "event") /\ Granted(c)
      /\ \/ e \notin Events /\ Reject(c)
         \/ e \in Events /\ eventStatus[e] = "cancelled" /\ Return(c, "already")
         \/ e \in Events /\ eventStatus[e] = "finished" /\ Reject(c)
         \/ e \in Events /\ eventStatus[e] \in TakesBets /\ Proceed(c, "rows")

CancelLockBets(c) ==
  /\ At(c, "cancel", "rows") /\ Granted(c)
  /\ rows' = [rows EXCEPT ![c] = Due(c)]
  /\ Statement(c, IF Due(c) # {} THEN "credit" ELSE "commit")
  /\ UNCHANGED snap

CancelInsertRefunds(c) == At(c, "cancel", "credit") /\ InsertPayments(c, "refer")

CancelReferRefunds(c) == At(c, "cancel", "refer") /\ Granted(c) /\ Proceed(c, "commit")

CancelCommit(c) ==
  /\ At(c, "cancel", "commit")
  /\ eventStatus' = [eventStatus EXCEPT ![req[c].event] = "cancelled"]
  /\ bets' = WithStatus(rows[c], "voided")
  /\ payments' = payments \cup PaymentsOf(c)
  /\ UNCHANGED <<outcomeStatus, snapshots, endedSessions, now>>
  /\ Committed(c, "cancelled", None)

-----------------------------------------------------------------------------
\* What can go wrong with any of them.

Active(c) == pc[c] \notin {"idle", "done"}

\* The connection drops or the process dies before the commit.
Fail(c) == Active(c) /\ Return(c, "error")

\* Mutant: retries are not counted.
DeadlockedForever(c) ==
  /\ OnCycle(c, WaitsFor)
  /\ pc' = [pc EXCEPT ![c] = FirstLabel(req[c])]
  /\ held' = [held EXCEPT ![c] = {}]
  /\ snap' = [snap EXCEPT ![c] = None]
  /\ rows' = [rows EXCEPT ![c] = {}]
  /\ UNCHANGED <<database, req, attempt, reply>>

\* After a rollback for a deadlock retry_on_conflict runs the operation again, or
\* gives up after the last attempt.
RunAgain(c) ==
  \/ /\ attempt[c] < MaxAttempts
     /\ attempt' = [attempt EXCEPT ![c] = @ + 1]
     /\ pc' = [pc EXCEPT ![c] = FirstLabel(req[c])]
     /\ held' = [held EXCEPT ![c] = {}]
     /\ snap' = [snap EXCEPT ![c] = None]
     /\ rows' = [rows EXCEPT ![c] = {}]
     /\ UNCHANGED <<database, req, reply>>
  \/ attempt[c] = MaxAttempts /\ Return(c, "error")

\* PostgreSQL rolls back a transaction it finds on a cycle of waiting ones.
Deadlocked(c) == OnCycle(c, WaitsFor) /\ RunAgain(c)

\* The cycle goes through a transaction that has no statements here: a flush of the
\* odds feed that holds one outcome and waits for another, a purchase that holds
\* its user and waits for a key.  The call has what somebody may wait for, and waits
\* for another call or may wait for one of those.
DeadlockedOutside(c) ==
  /\ held[c] # {}
  /\ WaitsFor[c] # {} \/ \E l \in Wanted(c) : l.row[1] \in {"outcome", "user"}
  /\ RunAgain(c)

-----------------------------------------------------------------------------
\* What goes on around them.

Unheld(locks) == \A c \in Calls : \A l \in locks, m \in held[c] : ~ Conflict(l, m)

\* record_odds_update commits a snapshot, or flush_odds_queue those of a batch,
\* possibly late: the foreign keys need the outcomes rows.
FeedSnapshots(arrived) ==
  /\ arrived # {}
  /\ \A s \in arrived : s.at <= now
  /\ Unheld(KeyShare("outcome", {s.outcome : s \in arrived}))
  /\ W!Feed(arrived)
  /\ UNCHANGED <<endedSessions, now, calls>>

\* purchase_subscription commits: it has locked its user, and an uncommitted row
\* with its key makes it wait.
PurchaseCommits(u, k) ==
  /\ Unheld(ForUpdate("user", {u}))
  /\ \A c \in Calls : ~ InFlight(c, k)
  /\ W!Buy(u, k)
  /\ UNCHANGED <<endedSessions, now, calls>>

\* end_streaming_session locks the row; the bulk UPDATE only its values, which a
\* bet that names the session does not wait for.
EndSession(x) ==
  /\ x \notin endedSessions
  /\ Unheld(ForUpdate("session", {x}))
  /\ endedSessions' = endedSessions \cup {x}
  /\ UNCHANGED <<tables, now, calls>>

EndSessionsBulk(xs) ==
  /\ ~ xs \subseteq endedSessions
  /\ Unheld(NoKeyUpdate("session", xs \ endedSessions))
  /\ endedSessions' = endedSessions \cup xs
  /\ UNCHANGED <<tables, now, calls>>

\* The match starts or ends, by an UPDATE no operation of the repository makes.
EventAdvances(e) ==
  /\ Unheld(NoKeyUpdate("event", {e}))
  /\ W!Advance(e)
  /\ UNCHANGED <<endedSessions, now, calls>>

Tick == now + 1 \in Times /\ now' = now + 1 /\ UNCHANGED <<tables, endedSessions, calls>>

Finished == (\A c \in Calls : pc[c] = "done") /\ UNCHANGED vars

-----------------------------------------------------------------------------
Place(c) ==
  \/ PlaceLockUser(c) \/ PlaceCheckKey(c) \/ PlaceLockOutcome(c) \/ PlaceLockEvent(c)
  \/ PlaceReadPrice(c) \/ PlaceCheckSession(c) \/ PlaceInsertBet(c)
  \/ PlaceInsertPayment(c) \/ PlaceCommit(c)

Settle(c) ==
  \/ SettleLockOutcome(c) \/ SettleLockEvent(c) \/ SettleLockBets(c)
  \/ SettleInsertPayouts(c) \/ SettleReferPayouts(c) \/ SettleCommit(c)

Cancel(c) ==
  \/ CancelLockOutcome(c) \/ CancelLockEvent(c) \/ CancelLockBets(c)
  \/ CancelInsertRefunds(c) \/ CancelReferRefunds(c) \/ CancelCommit(c)

Step(c) == Place(c) \/ Settle(c) \/ Cancel(c)

Around ==
  \/ \E p \in Purchases : PurchaseCommits(p[1], p[2])
  \/ \E x \in Sessions : EndSession(x)
  \/ \E xs \in SUBSET Sessions : EndSessionsBulk(xs)
  \/ \E e \in Events : EventAdvances(e)
  \/ Tick

Next ==
  \/ \E c \in Calls : \/ \E r \in Requests : Start(c, r)
                      \/ Step(c)
                      \/ Fail(c)
                      \/ Deadlocked(c)
                      \/ DeadlockedOutside(c)
  \/ \E arrived \in SUBSET Snapshot : FeedSnapshots(arrived)
  \/ Around
  \/ Finished

Spec == Init /\ [][Next]_vars

\* A transaction that can go on does, and PostgreSQL looks for deadlocks; the
\* callers, the feed, the clock and failures owe nothing.
FairSpec ==
  /\ Spec
  /\ \A c \in Calls : WF_vars(Step(c)) /\ WF_vars(Deadlocked(c))

-----------------------------------------------------------------------------
(* Properties *)

LockedRows == {"user"} \X Users \cup {"outcome"} \X Outcomes \cup {"event"} \X Events
          \cup {"session"} \X Sessions \cup {"bet"} \X Calls
          \cup {"snapshot"} \X (Outcomes \X Times)

\* Every variable has its type.
TypeOK ==
  /\ W!TypeOK
  /\ endedSessions \subseteq Sessions
  /\ now \in Times
  /\ req \in [Calls -> Requests \cup {None}]
  /\ pc \in [Calls -> Labels]
  /\ attempt \in [Calls -> 1 .. MaxAttempts]
  /\ held \in [Calls -> SUBSET [row : LockedRows, mode : Modes]]
  /\ snap \in [Calls -> Snapshot \cup {None}]
  /\ rows \in [Calls -> SUBSET Calls]
  /\ reply \in [Calls -> [kind : Answers, bet : Calls \cup {None}]]

\* What each operation relies on once a statement has locked or read it.
Has(c, table, i) == [row |-> <<table, i>>, mode |-> "for_update"] \in held[c]

PlaceCurrent(c) ==
  LET past(labels) == pc[c] \in labels /\ req[c].op = "place"
      o == req[c].outcome
      stake == Quantized(req[c].stake)
  IN  /\ pc[c] \notin {"idle", "done"} /\ req[c].op = "place" => stake > 0
      /\ past({"key", "outcome", "event", "price", "session", "bet", "payment", "commit"})
           => req[c].user \in Users
      /\ past({"event", "price", "session", "bet", "payment", "commit"})
           => o \in Outcomes /\ Has(c, "outcome", o) /\ outcomeStatus[o] = "open"
      /\ past({"price", "session", "bet", "payment", "commit"})
           => Has(c, "event", EventOf[o]) /\ eventStatus[EventOf[o]] \in TakesBets
      /\ past({"session", "bet", "payment", "commit"})
           => IsNewest(snap[c], snapshots, o)
      /\ past({"payment", "commit"})
           => stake <= MaxMoney

SettleCurrent(c) ==
  LET past(labels) == pc[c] \in labels /\ req[c].op = "settle"
      o == req[c].outcome
  IN  /\ past({"event", "rows", "credit", "refer", "commit"})
           => o \in Outcomes /\ Has(c, "outcome", o) /\ outcomeStatus[o] = "open"
      /\ past({"rows", "credit", "refer", "commit"})
           => Has(c, "event", EventOf[o]) /\ eventStatus[EventOf[o]] # "cancelled"
      /\ past({"credit", "refer", "commit"})
           => rows[c] = PendingOn(bets, {o})

CancelCurrent(c) ==
  LET past(labels) == pc[c] \in labels /\ req[c].op = "cancel"
      e == req[c].event
  IN  /\ past({"event", "rows", "credit", "refer", "commit"})
           => \A o \in OutcomesOf(e) : Has(c, "outcome", o)
      /\ past({"rows", "credit", "refer", "commit"})
           => e \in Events /\ Has(c, "event", e) /\ eventStatus[e] \in TakesBets
      /\ past({"credit", "refer", "commit"})
           => rows[c] = PendingOn(bets, OutcomesOf(e))

\* What a transaction has inserted into payments still can be.
KeysCurrent(c) ==
  pc[c] \in {"refer", "commit"} => W!Insertable(PaymentsOf(c)) /\ SameKeyInFlight(c) = {}

\* The transactions that interleave here change the tables exactly as the
\* indivisible operations of Wagers would: what READ COMMITTED and the row locks
\* of betting.py have to achieve between them.
ActsAtomically == W!Spec

\* See Wagers.
LedgerBalanced   == W!LedgerBalanced
BetsFollowMarket == W!BetsFollowMarket

\* What a transaction has read under its locks is still what the tables say,
\* up to its commit: the market it found open is open, the price it is about to
\* lock in is the newest, the bets it is about to resolve are all the pending
\* ones, and nobody else has or is about to use its idempotency keys ("in-flight bets
\* either commit before settlement or are rejected after it", settle_outcome).
WorkIsCurrent ==
  /\ Exclusive(held)
  /\ \A c \in Calls :
    /\ pc[c] # "idle" => req[c] # None
    /\ pc[c] # "done" => bets[c] = None
    /\ PlaceCurrent(c)
    /\ SettleCurrent(c)
    /\ CancelCurrent(c)
    /\ KeysCurrent(c)

\* A double click or a client's retry charges once.  Whoever is told that a bet was
\* placed has it charged under the key, and nothing else was ever paid under that
\* key; whoever is told of a replay is told of the one payment that has the key, by
\* its bet_id.  So calls with the same key hear of the same bet, and one of them
\* placed it (idempotency_key UNIQUE, place_bet) - unless the key is that of a
\* subscription, when they hear of none, or of a payout or refund, when they hear
\* of the bet that was paid out or refunded.
ChargedOnce ==
  \A c \in Calls :
    LET under(k) == {p \in payments : p.key = k}
    IN  /\ reply[c].kind = "placed" =>
             /\ reply[c].bet = c /\ bets[c] # None
             /\ under(req[c].key) = {Charge(c, bets[c], req[c].key)}
        /\ reply[c].kind = "replayed" =>
             \E p \in payments : under(req[c].key) = {p} /\ p.bet = reply[c].bet

\* A duplicated settlement or cancellation never answers that it did the work
\* twice: of the calls on one outcome at most one settled it, of the calls on
\* one event at most one cancelled it (Idempotent, settle_outcome, cancel_event).
DoneOnce ==
  \A c, d \in Calls :
    /\ reply[c].kind \in {"settled", "cancelled"}
    /\ reply[d].kind = reply[c].kind
    /\ MarketsOf(c) \cap MarketsOf(d) # {}
    => c = d

\* The waits that have nothing to do with rows of users.
MarketWaits == [c \in Calls |->
  Holders(held, c, {l \in Wanted(c) : l.row[1] # "user"}) \cup KeyHolders(c)]

\* Locking outcomes before the event, and outcomes in order of their ids, leaves
\* no cycle of calls that wait for each other's markets and keys: every deadlock
\* of calls alone goes through a users row ("same order as place_bet",
\* cancel_event).
MarketLocksOrdered == \A c \in Calls : ~ OnCycle(c, MarketWaits)

\* A call that has started answers.
EveryCallAnswers == \A c \in Calls : Active(c) ~> pc[c] = "done"

-----------------------------------------------------------------------------
(* What the source says and the code does not do *)

\* "Same lock order as place_bet (outcome first) -> no deadlock", settle_outcome.
NoDeadlock == \A c \in Calls : ~ OnCycle(c, WaitsFor)
=============================================================================
