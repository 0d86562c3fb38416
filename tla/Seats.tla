------------------------------- MODULE Seats -------------------------------
(***************************************************************************)
(* operations/auth.py, operations/billing.py and operations/streaming.py:  *)
(* a user signs up and buys a subscription, and each streaming session     *)
(* takes one of the seats of its plan (max_concurrent_streams) until it is *)
(* ended, alone or in bulk.  seed.py runs the operations one after the     *)
(* other for a user and an event of its own.                               *)
(*                                                                         *)
(* One action per statement of a transaction (READ COMMITTED).  A row has  *)
(* the name of the call that inserts it.  Plans never change, and no       *)
(* operation takes a subscription's status from active.                    *)
(***************************************************************************)
EXTENDS Integers, FiniteSets, Sequences, RowLocks

CONSTANTS
  Calls,           \* callers, each of which runs one script
  Requests,        \* the scripts: sequences of operations
  Own,             \* in a script: the user or event that it has inserted
  Emails, Canonical,  \* as callers write them; after strip and lower
  SeedUsers,       \* users rows the database starts with
  UserIds,         \* user_id's callers may name
  Plans, PlanIds,  \* plan_id's with a row in plans, those callers may name
  CapOf, PriceOf,  \* plans.max_concurrent_streams, plans.monthly_price
  Events, EventIds,
  Keys, BetKeys,   \* idempotency keys callers choose, those bets may come to use
  Months,          \* the months callers ask for; a day of the model is a month
  LastDay,         \* the calendar is followed up to here
  SeedSubs,        \* subscriptions rows the database starts with, all active
  SeedSessions,    \* streaming_sessions rows it starts with, all open
  SessionIds,      \* session_id's callers may name
  None             \* NULL

Register == [op : {"register"}, email : Emails]
Purchase == [op : {"purchase"}, user : UserIds, plan : PlanIds, months : Months, key : Keys]
StartOf  == [op : {"start"}, user : UserIds, event : EventIds]
EndOf    == [op : {"end"}, session : SessionIds]
Bulk     == [op : {"bulk"}, sessions : SUBSET SessionIds]

\* seed_event_with_session(plan_id, tag): an event, a user of the tag's email,
\* their subscription under the key sub:{uid}, their session on the event.
Enroll(email, plan) ==
  << [op |-> "event"],
     [op |-> "register", email |-> email],
     [op |-> "purchase", user |-> Own, plan |-> plan, months |-> 1, key |-> Own],
     [op |-> "start", user |-> Own, event |-> Own] >>

Single     == {<<r>> : r \in Register \cup Purchase \cup StartOf \cup EndOf \cup Bulk}
Operations == UNION {{r[i] : i \in DOMAIN r} : r \in Requests}

User         == [id : UserIds \cup Calls, email : Emails]
SubIds       == Calls \cup {s.id : s \in SeedSubs}
EndDates     == {d + m : d \in 0 .. LastDay, m \in Months}
Subscription == [id : SubIds, user : UserIds \cup Calls, plan : Plans, ends : EndDates]
Session      == [id : Calls \cup SessionIds, sub : SubIds, event : Events \cup Calls]
Payment      == [id : Calls, user : UserIds \cup Calls, sub : SubIds, key : Keys \cup Calls]

ASSUME SeatsAssumption ==
  /\ Requests \subseteq Single \cup {Enroll(e, p) : e \in Emails, p \in PlanIds}
  /\ Canonical \in [Emails -> Emails]
  /\ SeedUsers \subseteq User /\ \A u \in SeedUsers : u.id \in UserIds
  /\ \A u, v \in SeedUsers : u.id = v.id \/ u.email = v.email => u = v
  /\ \A u \in SeedUsers : Canonical[u.email] = u.email
  /\ Plans \subseteq PlanIds /\ Events \subseteq EventIds
  /\ Calls \cap (UserIds \cup EventIds \cup Keys \cup SessionIds \cup {Own}) = {}
  /\ CapOf \in [Plans -> Nat \ {0}]   \* ck_plan_streams_pos
  /\ PriceOf \in [Plans -> Nat]       \* ck_plan_price_nonneg
  /\ BetKeys \subseteq Keys /\ Months \subseteq Int /\ 1 \in Months /\ LastDay \in Nat
  /\ SeedSubs \subseteq Subscription /\ SeedSessions \subseteq Session
  /\ \A e \in Emails : Canonical[Canonical[e]] = Canonical[e]
  /\ IsFiniteSet(SessionIds)

\* What the constraints of the schema, and the operations that have run before,
\* leave: one active subscription for a user, sessions on subscriptions that
\* exist, no more of them than there are seats.
ASSUME SeedsAssumption ==
  /\ \A s, t \in SeedSubs : s.id = t.id \/ s.user = t.user => s = t
  /\ \A s \in SeedSubs : s.id \notin Calls
  /\ IsFiniteSet(SeedSessions)
  /\ \A x \in SeedSessions : x.id \in SessionIds /\ \E s \in SeedSubs : s.id = x.sub
  /\ \A s \in SeedSubs : Cardinality({x \in SeedSessions : x.sub = s.id}) <= CapOf[s.plan]

VARIABLES
  users,       \* users
  subs,        \* subscriptions
  payments,    \* payments of subscriptions
  betKeys,     \* the keys of payments of bets
  sessions,    \* streaming_sessions
  ended,       \* those of which ended_at is set
  streamable,  \* sports_events that are scheduled or live
  today,
  script,      \* what each caller has left to do after its operation
  req, pc,     \* the operation it is in, and the statement it comes to next
  held,        \* the row locks of its transaction
  sub,         \* the subscription it has locked, or has inserted
  rows,        \* the sessions its statement still has to update
  closed,      \* the sessions it has set ended_at of
  reply

database == <<users, subs, payments, betKeys, sessions, ended, streamable, today>>
work     == <<held, sub, rows, closed>>
vars     == <<database, script, req, pc, work, reply>>

Labels == {"idle", "seed", "email", "user", "key", "active", "sub", "payment", "lock",
           "event", "count", "session", "match", "close", "commit", "done"}

Init ==
  /\ users = SeedUsers
  /\ subs = SeedSubs
  /\ payments = {}
  /\ betKeys = {}
  /\ sessions = SeedSessions
  /\ ended = {}
  /\ streamable = Events
  /\ today = 0
  /\ script = [c \in Calls |-> <<>>]
  /\ req = [c \in Calls |-> None]
  /\ pc = [c \in Calls |-> "idle"]
  /\ held = [c \in Calls |-> {}]
  /\ sub = [c \in Calls |-> None]
  /\ rows = [c \in Calls |-> {}]
  /\ closed = [c \in Calls |-> {}]
  /\ reply = [c \in Calls |-> [kind |-> "none", count |-> 0, sub |-> None]]

-----------------------------------------------------------------------------
At(c, op, label) == pc[c] = label /\ req[c].op = op

\* What an operation of a script is about.
UserOf(c)  == IF req[c].user = Own THEN c ELSE req[c].user
KeyOf(c)   == IF req[c].key = Own THEN c ELSE req[c].key
EventFor(c) == IF req[c].event = Own THEN c ELSE req[c].event

UserRows == {u.id : u \in users}
UsedKeys == betKeys \cup {p.key : p \in payments}

\* The subscriptions with status active, uq_one_active_sub_per_user.
ActiveOf(u) == {s \in subs : s.user = u}
OpenOn(s)   == {x \in sessions : x.sub = s.id /\ x.id \notin ended}

\* The transactions that have inserted a row and have not ended.
SameEmailInFlight(c) ==
  {d \in Calls \ {c} : At(d, "register", "commit")
                         /\ Canonical[req[d].email] = Canonical[req[c].email]}
SameUserInFlight(c) ==
  {d \in Calls \ {c} : pc[d] \in {"payment", "commit"} /\ req[d].op = "purchase"
                         /\ UserOf(d) = UserOf(c)}
SameKeyInFlight(c) ==
  {d \in Calls \ {c} : At(d, "purchase", "commit") /\ KeyOf(d) = KeyOf(c)}

\* Mutant: purchase_subscription locks the subscriptions it finds active.
WantedLockingActive(c) ==
  CASE pc[c] = "user"           -> ForUpdate("user", {UserOf(c)} \cap UserRows)
    [] pc[c] = "active"         -> ForUpdate("sub", {s.id : s \in ActiveOf(UserOf(c))})
    [] pc[c] \in {"sub", "payment"} -> KeyShare("user", {UserOf(c)})
    [] At(c, "start", "lock")   -> ForUpdate("sub", {s.id : s \in ActiveOf(UserOf(c))})
    [] pc[c] = "session"        -> KeyShare("user", {UserOf(c)}) \cup
                                   KeyShare("event", {EventFor(c)})
    [] At(c, "end", "lock")     -> ForUpdate("session", {x.id : x \in sessions} \cap {req[c].session})
    [] OTHER -> {}

\* The locks the statement at pc[c] takes: lock(), an UPDATE, the foreign keys of
\* an INSERT.
Wanted(c) ==
  CASE pc[c] = "user"           -> ForUpdate("user", {UserOf(c)} \cap UserRows)
    [] pc[c] \in {"sub", "payment"} -> KeyShare("user", {UserOf(c)})
    [] At(c, "start", "lock")   -> ForUpdate("sub", {s.id : s \in ActiveOf(UserOf(c))})
    [] pc[c] = "session"        -> KeyShare("user", {UserOf(c)}) \cup
                                   KeyShare("event", {EventFor(c)})
    [] At(c, "end", "lock")     -> ForUpdate("session", {x.id : x \in sessions} \cap {req[c].session})
    [] OTHER -> {}

Granted(c) == Holders(held, c, Wanted(c)) = {}
Take(c)    == held' = [held EXCEPT ![c] = @ \cup Wanted(c)]
Go(c, label) == pc' = [pc EXCEPT ![c] = label]

\* A bulk UPDATE waits at whichever row it comes to.
WaitsFor == [c \in Calls |->
  CASE pc[c] = "email"   -> SameEmailInFlight(c)
    [] pc[c] = "sub"     -> Holders(held, c, Wanted(c)) \cup SameUserInFlight(c)
    [] pc[c] = "payment" -> Holders(held, c, Wanted(c)) \cup SameKeyInFlight(c)
    [] pc[c] = "close" /\ \A x \in rows[c] : Holders(held, c, NoKeyUpdate("session", {x})) # {} ->
         Holders(held, c, NoKeyUpdate("session", rows[c]))
    [] OTHER -> Holders(held, c, Wanted(c))]

\* The transaction ends, and its locks with it.
EndTransaction(c) ==
  /\ held' = [held EXCEPT ![c] = {}]
  /\ sub' = [sub EXCEPT ![c] = None]
  /\ rows' = [rows EXCEPT ![c] = {}]
  /\ closed' = [closed EXCEPT ![c] = {}]

\* The script ends with this operation: it was its last, or has failed.
Answer(c, kind, n, s) ==
  /\ Go(c, "done")
  /\ reply' = [reply EXCEPT ![c] = [kind |-> kind, count |-> n, sub |-> s]]
  /\ EndTransaction(c)
  /\ UNCHANGED <<script, req>>
Raise(c, kind) == Answer(c, kind, 0, None) /\ UNCHANGED database

FirstLabel(r) ==
  CASE r.op = "event" -> "seed" [] r.op = "register" -> "email" [] r.op = "purchase" -> "user"
    [] r.op = "bulk" -> "match" [] OTHER -> "lock"

\* The operation has returned, and the script goes on.
Return(c, kind, n, s) ==
  \/ script[c] = <<>> /\ Answer(c, kind, n, s)
  \/ /\ script[c] # <<>>
     /\ script' = [script EXCEPT ![c] = Tail(@)]
     /\ req' = [req EXCEPT ![c] = Head(script[c])]
     /\ Go(c, FirstLabel(Head(script[c])))
     /\ EndTransaction(c)
     /\ UNCHANGED reply

\* The answer to a commit may get lost.
Committed(c, kind, n, s) == Return(c, kind, n, s) \/ Answer(c, "unanswered", 0, None)

\* A statement that only takes locks and goes on to the next.
Statement(c, label) ==
  /\ Go(c, label) /\ Take(c)
  /\ UNCHANGED <<database, script, req, sub, rows, closed, reply>>

Start(c, r) ==
  /\ pc[c] = "idle"
  /\ req' = [req EXCEPT ![c] = Head(r)]
  /\ script' = [script EXCEPT ![c] = Tail(r)]
  /\ Go(c, FirstLabel(Head(r)))
  /\ UNCHANGED <<database, work, reply>>

-----------------------------------------------------------------------------
\* seed_sports_event, register_user

SeedEvent(c) ==
  /\ At(c, "event", "seed")
  /\ streamable' = streamable \cup {c}
  /\ Committed(c, "seeded", 0, None)
  /\ UNCHANGED <<users, subs, payments, betKeys, sessions, ended, today>>

\* Mutant: the address is compared as it was written.
RegisterInsertAsWritten(c) ==
  LET taken == \E u \in users : u.email = req[c].email
  IN  /\ At(c, "register", "email")
      /\ {d \in SameEmailInFlight(c) : req[d].email = req[c].email} = {}
      /\ \/ ~ taken /\ Statement(c, "commit")
         \/ taken /\ Raise(c, "rejected")

\* UNIQUE email makes the INSERT wait for a sign-up with the same address, and
\* fail if that one, or an earlier one, has committed.
RegisterInsert(c) ==
  LET taken == \E u \in users : u.email = Canonical[req[c].email]
  IN  /\ At(c, "register", "email") /\ SameEmailInFlight(c) = {}
      /\ \/ ~ taken /\ Statement(c, "commit")
         \/ taken /\ Raise(c, "rejected")

RegisterCommit(c) ==
  /\ At(c, "register", "commit")
  /\ users' = users \cup {[id |-> c, email |-> Canonical[req[c].email]]}
  /\ Committed(c, "registered", 0, None)
  /\ UNCHANGED <<subs, payments, betKeys, sessions, ended, streamable, today>>

-----------------------------------------------------------------------------
\* purchase_subscription

\* Mutant: the user is read without a lock.
PurchaseReadUser(c) ==
  /\ At(c, "purchase", "user")
  /\ UserOf(c) \in UserRows
  /\ Go(c, "key")
  /\ UNCHANGED <<database, script, req, work, reply>>

PurchaseLockUser(c) ==
  /\ At(c, "purchase", "user") /\ Granted(c)
  /\ \/ UserOf(c) \in UserRows /\ Statement(c, "key")
     \/ UserOf(c) \notin UserRows /\ Raise(c, "rejected")

\* Mutant: the plan is not looked up.
PurchaseCheckKeyOnly(c) ==
  At(c, "purchase", "key") /\ KeyOf(c) \notin UsedKeys /\ Statement(c, "active")

\* The key of any payment, also of another user's, or of a bet, which names no
\* subscription.
PurchaseCheckKey(c) ==
  LET used == KeyOf(c) \in UsedKeys
      bought == {p.sub : p \in {x \in payments : x.key = KeyOf(c)}}
      told == IF bought = {} THEN {None} ELSE bought
  IN  /\ At(c, "purchase", "key")
      /\ \/ used /\ (\E x \in told : Return(c, "replayed", 0, x)) /\ UNCHANGED database
         \/ ~ used /\ req[c].plan \in Plans /\ Statement(c, "active")
         \/ ~ used /\ req[c].plan \notin Plans /\ Raise(c, "rejected")

\* count(*) of the subscriptions with status active, whatever their end_date.
PurchaseCheckActive(c) ==
  /\ At(c, "purchase", "active") /\ Granted(c)
  /\ \/ ActiveOf(UserOf(c)) = {} /\ Statement(c, "sub")
     \/ ActiveOf(UserOf(c)) # {} /\ Raise(c, "active")

\* ck_sub_dates and uq_one_active_sub_per_user may fail the INSERT.
PurchaseInsertSub(c) ==
  LET row == [id |-> c, user |-> UserOf(c), plan |-> req[c].plan, ends |-> today + req[c].months]
  IN  /\ At(c, "purchase", "sub") /\ Granted(c) /\ SameUserInFlight(c) = {}
      /\ IF req[c].months < 0 \/ ActiveOf(UserOf(c)) # {}
           THEN Raise(c, "failed")
           ELSE /\ Go(c, "payment") /\ Take(c)
                /\ sub' = [sub EXCEPT ![c] = row]
                /\ UNCHANGED <<database, script, req, rows, closed, reply>>

\* Mutant: payments.idempotency_key without its UNIQUE.
PurchaseInsertAnyPayment(c) ==
  /\ At(c, "purchase", "payment") /\ Granted(c)
  /\ PriceOf[req[c].plan] * req[c].months > 0
  /\ Statement(c, "commit")

\* ck_payment_amount_pos and the unique key may fail the INSERT.
PurchaseInsertPayment(c) ==
  LET used == KeyOf(c) \in UsedKeys
  IN  /\ At(c, "purchase", "payment") /\ Granted(c) /\ SameKeyInFlight(c) = {}
      /\ \/ /\ ~ used /\ PriceOf[req[c].plan] * req[c].months > 0
            /\ Statement(c, "commit")
         \/ /\ used \/ PriceOf[req[c].plan] * req[c].months <= 0
            /\ Raise(c, "failed")

PurchaseCommit(c) ==
  /\ At(c, "purchase", "commit")
  /\ subs' = subs \cup {sub[c]}
  /\ payments' = payments \cup {[id |-> c, user |-> UserOf(c), sub |-> c, key |-> KeyOf(c)]}
  /\ Committed(c, "purchased", 0, c)
  /\ UNCHANGED <<users, betKeys, sessions, ended, streamable, today>>

-----------------------------------------------------------------------------
\* start_streaming_session

\* Mutant: the subscription is read without a lock.
StartReadSub(c) ==
  /\ At(c, "start", "lock")
  /\ \E s \in ActiveOf(UserOf(c)) :
       s.ends >= today /\ Go(c, "event") /\ sub' = [sub EXCEPT ![c] = s]
  /\ UNCHANGED <<database, script, req, held, rows, closed, reply>>

StartLockSub(c) ==
  /\ At(c, "start", "lock") /\ Granted(c)
  /\ \/ /\ \E s \in ActiveOf(UserOf(c)) :
             s.ends >= today /\ Go(c, "event") /\ sub' = [sub EXCEPT ![c] = s]
        /\ Take(c)
        /\ UNCHANGED <<database, script, req, rows, closed, reply>>
     \/ /\ \A s \in ActiveOf(UserOf(c)) : s.ends < today
        /\ Raise(c, "rejected")

StartReadEvent(c) ==
  /\ At(c, "start", "event")
  /\ \/ EventFor(c) \in streamable /\ Statement(c, "count")
     \/ EventFor(c) \notin streamable /\ Raise(c, "rejected")

\* Mutant: one session too many.
StartCountOver(c) ==
  LET open == Cardinality(OpenOn(sub[c]))
  IN  /\ At(c, "start", "count")
      /\ \/ open <= CapOf[sub[c].plan] /\ Statement(c, "session")
         \/ open > CapOf[sub[c].plan] /\ Raise(c, "rejected")

StartCount(c) ==
  LET open == Cardinality(OpenOn(sub[c]))
  IN  /\ At(c, "start", "count")
      /\ \/ open < CapOf[sub[c].plan] /\ Statement(c, "session")
         \/ open >= CapOf[sub[c].plan] /\ Raise(c, "rejected")

StartInsertSession(c) ==
  At(c, "start", "session") /\ Granted(c) /\ Statement(c, "commit")

StartCommit(c) ==
  /\ At(c, "start", "commit")
  /\ sessions' = sessions \cup {[id |-> c, sub |-> sub[c].id, event |-> EventFor(c)]}
  /\ Committed(c, "started", 0, sub[c].id)
  /\ UNCHANGED <<users, subs, payments, betKeys, ended, streamable, today>>

-----------------------------------------------------------------------------
\* end_streaming_session, end_streaming_sessions_bulk

\* Mutant: the session is read without a lock.
EndReadSession(c) ==
  /\ At(c, "end", "lock")
  /\ \E x \in sessions : x.id = req[c].session /\ x.id \notin ended
  /\ Go(c, "commit")
  /\ closed' = [closed EXCEPT ![c] = {req[c].session}]
  /\ UNCHANGED <<database, script, req, held, sub, rows, reply>>

EndLockSession(c) ==
  LET open == \E x \in sessions : x.id = req[c].session /\ x.id \notin ended
  IN  /\ At(c, "end", "lock") /\ Granted(c)
      /\ \/ /\ open
            /\ Go(c, "commit") /\ Take(c)
            /\ closed' = [closed EXCEPT ![c] = {req[c].session}]
            /\ UNCHANGED <<database, script, req, sub, rows, reply>>
         \/ ~ open /\ Return(c, "ended", 0, None) /\ UNCHANGED database

\* The rows the UPDATE's snapshot matches; without any, or any id, it is done.
BulkMatch(c) ==
  LET open == ({x.id : x \in sessions} \cap req[c].sessions) \ ended
  IN  /\ At(c, "bulk", "match")
      /\ rows' = [rows EXCEPT ![c] = open]
      /\ Go(c, IF open = {} THEN "commit" ELSE "close")
      /\ UNCHANGED <<database, script, req, held, sub, closed, reply>>

\* It comes to its rows in any order, waits for each, and passes over one that
\* has been ended meanwhile.
BulkClose(c, x) ==
  LET lock == NoKeyUpdate("session", {x})
  IN  /\ At(c, "bulk", "close") /\ x \in rows[c] /\ Holders(held, c, lock) = {}
      /\ rows' = [rows EXCEPT ![c] = @ \ {x}]
      /\ held' = [held EXCEPT ![c] = @ \cup lock]
      /\ closed' = [closed EXCEPT ![c] = @ \cup ({x} \ ended)]
      /\ Go(c, IF rows[c] = {x} THEN "commit" ELSE "close")
      /\ UNCHANGED <<database, script, req, sub, reply>>

\* True, or rowcount.
CloseCommit(c) ==
  /\ pc[c] = "commit" /\ req[c].op \in {"end", "bulk"}
  /\ ended' = ended \cup closed[c]
  /\ Committed(c, "closed", Cardinality(closed[c]), None)
  /\ UNCHANGED <<users, subs, payments, betKeys, sessions, streamable, today>>

-----------------------------------------------------------------------------
Crash(c) == pc[c] \notin {"idle", "done"} /\ Raise(c, "crashed")

\* Without retry_on_conflict; the other operations are never on a cycle.
BulkDeadlocked(c) == pc[c] = "close" /\ OnCycle(c, WaitsFor) /\ Raise(c, "deadlocked")

\* place_bet commits a payment under a key; it would wait for a purchase that
\* has inserted the key.
BetCommits(k) ==
  /\ k \notin UsedKeys
  /\ \A c \in Calls : At(c, "purchase", "commit") => KeyOf(c) # k
  /\ betKeys' = betKeys \cup {k}
  /\ UNCHANGED <<users, subs, payments, sessions, ended, streamable, today, script, req, pc, work, reply>>

EventStops(e) ==
  /\ e \in streamable
  /\ streamable' = streamable \ {e}
  /\ UNCHANGED <<users, subs, payments, betKeys, sessions, ended, today, script, req, pc, work, reply>>

NextDay ==
  /\ today < LastDay
  /\ today' = today + 1
  /\ UNCHANGED <<users, subs, payments, betKeys, sessions, ended, streamable, script, req, pc, work, reply>>

Finished == (\A c \in Calls : pc[c] = "done") /\ UNCHANGED vars

SignUp(c) == SeedEvent(c) \/ RegisterInsert(c) \/ RegisterCommit(c)
Buy(c) ==
  \/ PurchaseLockUser(c) \/ PurchaseCheckKey(c) \/ PurchaseCheckActive(c)
  \/ PurchaseInsertSub(c) \/ PurchaseInsertPayment(c) \/ PurchaseCommit(c)
Watch(c) ==
  \/ StartLockSub(c) \/ StartReadEvent(c) \/ StartCount(c)
  \/ StartInsertSession(c) \/ StartCommit(c)
Leave(c) ==
  \/ EndLockSession(c) \/ BulkMatch(c) \/ CloseCommit(c)
  \/ \E x \in rows[c] : BulkClose(c, x)

Next ==
  \/ \E c \in Calls : \/ \E r \in Requests : Start(c, r)
                      \/ SignUp(c) \/ Buy(c) \/ Watch(c) \/ Leave(c)
                      \/ Crash(c) \/ BulkDeadlocked(c)
  \/ \E e \in Events \cup Calls : EventStops(e)
  \/ \E k \in BetKeys : BetCommits(k)
  \/ NextDay
  \/ Finished

Spec == Init /\ [][Next]_vars

-----------------------------------------------------------------------------
(* Properties *)

TypeOK ==
  /\ users \subseteq User /\ subs \subseteq Subscription /\ payments \subseteq Payment
  /\ betKeys \subseteq BetKeys
  /\ sessions \subseteq Session /\ ended \subseteq {x.id : x \in sessions}
  /\ streamable \subseteq Events \cup Calls /\ today \in 0 .. LastDay
  /\ \A c \in Calls :
       /\ req[c] \in Operations \cup {None} /\ pc[c] \in Labels
       /\ sub[c] \in Subscription \cup {None}
       /\ rows[c] \subseteq SessionIds /\ closed[c] \subseteq SessionIds
       /\ reply[c].count \in 0 .. Cardinality(SessionIds) /\ reply[c].sub \in SubIds \cup {None}

\* No more open sessions than the plan has seats, however many starts count at
\* once: "the count-then-insert sequence is serialized per subscription"
\* (start_streaming_session).
SeatCap == \A s \in subs : Cardinality(OpenOn(s)) <= CapOf[s.plan]

\* "Never two active subscriptions" (purchase_subscription), and it is the lock
\* that sees to it: the unique index has nothing to refuse.
OneActiveSubscription ==
  /\ \A u \in UserRows : Cardinality(ActiveOf(u)) <= 1
  /\ \A c \in Calls : pc[c] = "sub" => ActiveOf(UserOf(c)) \cup SameUserInFlight(c) = {}

\* Subscription and payment are written together or not at all, and no key pays
\* twice, not even one a bet has used (purchase_subscription).
PaidOnce ==
  /\ \A p, q \in payments : p.key = q.key => p = q
  /\ \A p \in payments : p.key \notin betKeys
  /\ \A s \in subs \ SeedSubs : \E p \in payments : p.sub = s.id /\ p.user = s.user
  /\ \A p \in payments : \E s \in subs : s.id = p.sub

\* Two simultaneous sign-ups with the same address cannot both win, however each
\* writes it (register_user).
EmailsOnce ==
  /\ \A u, v \in users : Canonical[u.email] = Canonical[v.email] => u = v
  /\ \A c, d \in Calls :
       /\ reply[c].kind = "registered" /\ reply[d].kind = "registered"
       /\ Canonical[req[c].email] = Canonical[req[d].email]
       => c = d

\* "A retried/duplicated request never double-charges" (purchase_subscription):
\* whoever was told that a key had bought or is replayed was told of the one
\* subscription it has paid for, or of none because a bet has used it.
BoughtOnce ==
  \A c \in Calls : reply[c].kind \in {"purchased", "replayed"} =>
    IF KeyOf(c) \in betKeys THEN reply[c].sub = None
      ELSE {p.sub : p \in {x \in payments : x.key = KeyOf(c)}} = {reply[c].sub}

\* However calls that close a session overlap, one of them has closed it: what
\* they return adds up to the sessions that have ended.
Counted == {p \in Calls \X (1 .. Cardinality(SessionIds)) : p[2] <= reply[p[1]].count}
ClosedOnce ==
  (\A c \in Calls : reply[c].kind # "unanswered") => Cardinality(ended) = Cardinality(Counted)

\* The statements that interleave here take and free seats, and give users their
\* subscription, as the indivisible operations of SeatPool do.
Pool == INSTANCE SeatPool WITH
  watching <- {x \in sessions : x.id \notin ended},
  gone <- {x \in sessions : x.id \in ended}
SeatsAtomically == Pool!Spec

\* Sign-ups, starts, purchases and single ends never wait in a circle.
OnlyBulksDeadlock == \A c \in Calls : OnCycle(c, WaitsFor) => req[c].op = "bulk"

\* Violated.  A payment comes from "a subscription renewal" (team-buisness.md), but
\* a subscription past its end_date still counts as active when its user buys.
RenewsAfterExpiry ==
  [][\A c \in Calls : reply[c].kind = "none" /\ reply'[c].kind = "active" =>
       \E s \in ActiveOf(UserOf(c)) : s.ends >= today]_reply
=============================================================================
