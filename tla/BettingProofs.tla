--------------------------- MODULE BettingProofs ---------------------------
(***************************************************************************)
(* Betting implements Wagers, and therefore keeps what Wagers keeps.       *)
(*                                                                         *)
(* The inductive invariant is Inv: the types together with WorkIsCurrent,  *)
(* which says which row locks a transaction holds at each statement and    *)
(* that what it has read under them still stands.  From it every commit is *)
(* one step of Wagers and every other statement leaves the tables alone.   *)
(* First the statements that leave the tables alone, then the commits, the *)
(* surroundings (prices, sessions, matches), and the theorems.             *)
(***************************************************************************)
EXTENDS Betting, TLAPS

WP == INSTANCE WagersProofs

-----------------------------------------------------------------------------
(* Wagers, as instantiated by Betting and by the proofs about it. *)

LEMMA SameNext == [W!Next]_W!tables <=> [WP!Next]_WP!tables
BY DEF W!Next, WP!Next, W!tables, WP!tables,
       W!Place, WP!Place, W!Settle, WP!Settle, W!Cancel, WP!Cancel, W!Feed, WP!Feed,
       W!Advance, WP!Advance, W!Buy, WP!Buy, W!Insertable, WP!Insertable,
       W!Resolved, WP!Resolved, W!NewBet, WP!NewBet, W!Purchase, WP!Purchase,
       W!PendingOn, WP!PendingOn, W!IsNewest, WP!IsNewest, W!OutcomesOf, WP!OutcomesOf,
       W!Charge, WP!Charge, W!RefundOf, WP!RefundOf, W!PayoutOf, WP!PayoutOf,
       W!PayoutKey, WP!PayoutKey, W!VoidKey, WP!VoidKey,
       W!Payout, WP!Payout, W!HalfEven, WP!HalfEven, W!Quantized, WP!Quantized,
       W!TakesBets, WP!TakesBets, W!Snapshot, WP!Snapshot

LEMMA SameTypes == /\ W!TypeOK <=> WP!TypeOK
                   /\ W!TypeOK' <=> WP!TypeOK'
BY DEF W!TypeOK, WP!TypeOK, W!Bet, WP!Bet, W!Payment, WP!Payment, W!Snapshot, WP!Snapshot,
       W!PaymentKey, WP!PaymentKey, W!EventStatus, WP!EventStatus,
       W!OutcomeStatus, WP!OutcomeStatus, W!BetStatus, WP!BetStatus

LEMMA SameLedger == /\ W!LedgerBalanced <=> WP!LedgerBalanced
                    /\ W!LedgerBalanced' <=> WP!LedgerBalanced'
BY DEF W!LedgerBalanced, WP!LedgerBalanced, W!Owed, WP!Owed,
       W!Charge, WP!Charge, W!RefundOf, WP!RefundOf, W!PayoutOf, WP!PayoutOf,
       W!PayoutKey, WP!PayoutKey, W!VoidKey, WP!VoidKey,
       W!Payout, WP!Payout, W!HalfEven, WP!HalfEven

LEMMA SameKeys == /\ W!OnePaymentPerKey <=> WP!OnePaymentPerKey
                  /\ W!OnePaymentPerKey' <=> WP!OnePaymentPerKey'
BY DEF W!OnePaymentPerKey, WP!OnePaymentPerKey

LEMMA SameMarket == /\ W!BetsFollowMarket <=> WP!BetsFollowMarket
                    /\ W!BetsFollowMarket' <=> WP!BetsFollowMarket'
BY DEF W!BetsFollowMarket, WP!BetsFollowMarket

\* What Wagers assumes of its constants.
LEMMA WagersAssumptions == /\ None \notin WP!Bet \cup WP!Snapshot
                           /\ SeedSnapshots \subseteq WP!Snapshot
BY NullAssumption, SeedAssumption
   DEF Bet, WP!Bet, Snapshot, WP!Snapshot, BetStatus, WP!BetStatus

LEMMA KeepsTypes == W!TypeOK /\ [W!Next]_W!tables => W!TypeOK'
BY SameNext, SameTypes, WagersAssumptions, TablesAssumption, SeedAssumption,
   PurchasesAssumption, WP!NextTypes

LEMMA KeepsLedger ==
  W!TypeOK /\ W!LedgerBalanced /\ [W!Next]_W!tables => W!LedgerBalanced'
BY SameNext, SameTypes, SameLedger, WagersAssumptions, TablesAssumption, SeedAssumption,
   PurchasesAssumption, WP!NextLedger

LEMMA KeepsKeys == W!OnePaymentPerKey /\ [W!Next]_W!tables => W!OnePaymentPerKey'
BY SameNext, SameKeys, WagersAssumptions, TablesAssumption, SeedAssumption,
   PurchasesAssumption, WP!NextKeys

LEMMA KeepsMarket ==
  W!TypeOK /\ W!BetsFollowMarket /\ [W!Next]_W!tables => W!BetsFollowMarket'
BY SameNext, SameTypes, SameMarket, WagersAssumptions, TablesAssumption, SeedAssumption,
   PurchasesAssumption, WP!NextMarket

-----------------------------------------------------------------------------
(* The invariant. *)

Current(c) ==
  /\ pc[c] # "idle" => req[c] # None
  /\ pc[c] # "done" => bets[c] = None
  /\ PlaceCurrent(c)
  /\ SettleCurrent(c)
  /\ CancelCurrent(c)

Inv == TypeOK /\ WorkIsCurrent

USE DEF TakesBets

LEMMA InvParts ==
  Inv => TypeOK /\ Exclusive(held) /\ \A c \in Calls : Current(c) /\ KeysCurrent(c)
BY DEF Inv, WorkIsCurrent, Current

\* The types of the tables, in the words of Betting.
LEMMA TableTypes ==
  TypeOK => /\ eventStatus \in [Events -> EventStatus]
            /\ outcomeStatus \in [Outcomes -> OutcomeStatus]
            /\ snapshots \subseteq Snapshot
            /\ bets \in [Calls -> Bet \cup {None}]
            /\ payments \subseteq Payment
BY DEF TypeOK, W!TypeOK, W!EventStatus, EventStatus, W!OutcomeStatus, OutcomeStatus,
       W!Snapshot, Snapshot, W!Bet, Bet, W!BetStatus, BetStatus,
       W!Payment, Payment, W!PaymentKey, PaymentKey

\* What a request is made of.
LEMMA RequestTypes ==
  ASSUME NEW r \in Requests
  PROVE  /\ r.op \in {"place", "settle", "cancel"}
         /\ r.op = "place" => /\ r.stake \in Stakes /\ r.stake \in Int
                              /\ r.session \in Sessions \cup {None}
                              /\ r.key \in Keys
         /\ r.op = "settle" => r.won \in BOOLEAN
BY BettingAssumption, TablesAssumption DEF PlaceRequest, SettleRequest, CancelRequest

\* Two transactions never both hold a row FOR UPDATE, nor one FOR UPDATE and the
\* other FOR KEY SHARE.
LEMMA OneOwner ==
  ASSUME Exclusive(held), TypeOK, NEW c \in Calls, NEW d \in Calls, NEW table, NEW i,
         Has(c, table, i), \E m \in held[d] : m.row = <<table, i>>
  PROVE  c = d
<1> PICK m \in held[d] : m.row = <<table, i>>
  OBVIOUS
<1> DEFINE l == [row |-> <<table, i>>, mode |-> "for_update"]
<1>1. l \in held[c] /\ Conflict(l, m)
  BY DEF Has, Conflict
<1>2. DOMAIN held = Calls
  BY DEF TypeOK
<1> QED
  BY <1>1, <1>2 DEF Exclusive

\* A transaction that only adds locks nobody stands in the way of, or drops its
\* own, leaves the lock table exclusive.
LEMMA StaysExclusive ==
  ASSUME Exclusive(held), TypeOK, NEW d \in Calls, DOMAIN held' = Calls,
         \A c \in Calls \ {d} : held'[c] = held[c],
         \/ held'[d] \subseteq held[d]
         \/ Granted(d) /\ held'[d] = held[d] \cup Wanted(d)
  PROVE  Exclusive(held')
<1> SUFFICES ASSUME NEW a \in Calls, NEW b \in Calls, a # b,
                    NEW l \in held'[a], NEW m \in held'[b]
             PROVE  ~ Conflict(l, m)
  BY DEF Exclusive
<1>0. DOMAIN held = Calls
  BY DEF TypeOK
<1>1. \A x, y : Conflict(x, y) <=> Conflict(y, x)
  BY DEF Conflict
<1>2. ASSUME NEW c \in Calls \ {d}, NEW x \in held'[d], NEW y \in held'[c]
      PROVE  ~ Conflict(x, y)
  <2>1. y \in held[c]
    BY <1>2
  <2>2. CASE x \in held[d]
    BY <1>0, <2>1, <2>2 DEF Exclusive
  <2>3. CASE x \notin held[d]
    <3>1. Granted(d) /\ x \in Wanted(d)
      BY <1>2, <2>3
    <3> QED
      BY <1>0, <2>1, <3>1 DEF Granted, Holders
  <2> QED
    BY <2>2, <2>3
<1>3. CASE a # d /\ b # d
  BY <1>0, <1>3 DEF Exclusive
<1> QED
  BY <1>1, <1>2, <1>3

\* What a call relies on is not disturbed while the tables and the call itself
\* stay as they are.
LEMMA Undisturbed ==
  ASSUME NEW c \in Calls, Current(c), UNCHANGED tables,
         req'[c] = req[c], pc'[c] = pc[c], held'[c] = held[c],
         snap'[c] = snap[c], rows'[c] = rows[c]
  PROVE  Current(c)'
<1>1. PlaceCurrent(c)'
  BY DEF Current, PlaceCurrent, tables, Has
<1>2. SettleCurrent(c)'
  BY DEF Current, SettleCurrent, tables, Has
<1>3. CancelCurrent(c)'
  BY DEF Current, CancelCurrent, tables, Has
<1> QED
  BY <1>1, <1>2, <1>3 DEF Current, tables

-----------------------------------------------------------------------------
(* The payments a transaction has inserted and not committed. *)

\* They stay what they are as long as the call and the bets it pays for do.
LEMMA PaymentsStay ==
  ASSUME NEW c \in Calls, req[c] \in Requests,
         req'[c] = req[c], snap'[c] = snap[c], rows'[c] = rows[c],
         req[c].op \in {"settle", "cancel"} => \A b \in rows[c] : bets'[b] = bets[b]
  PROVE  PaymentsOf(c)' = PaymentsOf(c)
<1>1. /\ req[c].op \in {"place", "settle", "cancel"}
      /\ req[c].op = "settle" => req[c].won \in BOOLEAN
  BY RequestTypes
<1>2. CASE req[c].op = "place"
  BY <1>2 DEF PaymentsOf, NewBet
<1>3. CASE req[c].op = "settle" /\ req[c].won
  <2>1. PaymentsOf(c) = {PayoutOf(b, bets[b]) : b \in rows[c]}
        /\ PaymentsOf(c)' = {PayoutOf(b, bets'[b]) : b \in rows[c]}
    BY <1>3 DEF PaymentsOf
  <2> QED
    BY <1>3, <2>1
<1>4. CASE req[c].op = "settle" /\ ~ req[c].won
  BY <1>4 DEF PaymentsOf
<1>5. CASE req[c].op = "cancel"
  <2>1. PaymentsOf(c) = {RefundOf(b, bets[b]) : b \in rows[c]}
        /\ PaymentsOf(c)' = {RefundOf(b, bets'[b]) : b \in rows[c]}
    BY <1>5 DEF PaymentsOf
  <2> QED
    BY <1>5, <2>1
<1> QED
  BY <1>1, <1>2, <1>3, <1>4, <1>5

\* A call that has inserted something was asked for it.
LEMMA InsertedRequest ==
  ASSUME Inv, NEW c \in Calls, pc[c] \notin {"idle", "done"}
  PROVE  req[c] \in Requests
BY InvParts DEF Current, TypeOK

\* Whoever waits for nobody's keys has none of the keys of another in flight.
LEMMA NotInFlight ==
  ASSUME NEW c \in Calls, SameKeyInFlight(c) = {},
         NEW p \in PaymentsOf(c), NEW d \in Calls \ {c}
  PROVE  ~ InFlight(d, p.key)
BY DEF SameKeyInFlight

-----------------------------------------------------------------------------
(* Statements that write no table. *)

OnlyCall(d) ==
  \A c \in Calls \ {d} : /\ req'[c] = req[c]   /\ pc'[c] = pc[c] /\ held'[c] = held[c]
                         /\ snap'[c] = snap[c] /\ rows'[c] = rows[c]

\* d takes the locks its statement wants, or gives up what it has.
Locking(d) ==
  /\ DOMAIN held' = Calls
  /\ \/ held'[d] \subseteq held[d]
     \/ Granted(d) /\ held'[d] = held[d] \cup Wanted(d)

\* d has inserted no payments, or what it has inserted is new and nobody else is
\* about to commit one of the keys.
KeyClaimed(d) ==
  pc'[d] \in {"refer", "commit"} =>
    \/ PaymentsOf(d)' = {}
    \/ /\ PaymentsOf(d)' = PaymentsOf(d)
       /\ W!Insertable(PaymentsOf(d)) /\ SameKeyInFlight(d) = {}

Quiet(d) ==
  /\ UNCHANGED tables
  /\ OnlyCall(d) /\ Locking(d) /\ KeyClaimed(d)
  /\ Current(d)'

\* Another call has in flight what it had.
LEMMA OthersStay ==
  ASSUME Inv, NEW d \in Calls, Quiet(d), NEW c \in Calls \ {d}
  PROVE  /\ pc'[c] = pc[c]
         /\ pc[c] \in {"refer", "commit"} => PaymentsOf(c)' = PaymentsOf(c)
         /\ \A k : InFlight(c, k)' <=> InFlight(c, k)
<1>1. pc'[c] = pc[c]
  BY DEF Quiet, OnlyCall
<1>2. ASSUME pc[c] \in {"refer", "commit"}
      PROVE  PaymentsOf(c)' = PaymentsOf(c)
  <2>1. /\ req[c] \in Requests /\ bets' = bets
        /\ req'[c] = req[c] /\ snap'[c] = snap[c] /\ rows'[c] = rows[c]
    BY <1>2, InsertedRequest DEF Quiet, OnlyCall, tables
  <2> QED
    BY <2>1, PaymentsStay
<1> QED
  BY <1>1, <1>2 DEF InFlight

\* A quiet statement leaves everybody the keys they have inserted.
LEMMA QuietKeepsKeys ==
  ASSUME Inv, NEW d \in Calls, Quiet(d), NEW c \in Calls
  PROVE  KeysCurrent(c)'
<1>0. KeysCurrent(c) /\ payments' = payments
  BY InvParts DEF Quiet, tables
<1>1. CASE c = d
  <2> SUFFICES ASSUME pc'[d] \in {"refer", "commit"}
               PROVE  W!Insertable(PaymentsOf(d))' /\ SameKeyInFlight(d)' = {}
    BY <1>1 DEF KeysCurrent
  <2>1. CASE PaymentsOf(d)' = {}
    BY <2>1 DEF W!Insertable, SameKeyInFlight
  <2>2. CASE PaymentsOf(d)' # {}
    <3>1. /\ PaymentsOf(d)' = PaymentsOf(d)
          /\ W!Insertable(PaymentsOf(d)) /\ SameKeyInFlight(d) = {}
      BY <2>2 DEF Quiet, KeyClaimed
    <3>2. W!Insertable(PaymentsOf(d))'
      BY <1>0, <3>1 DEF W!Insertable
    <3>3. ASSUME NEW x \in Calls \ {d}, NEW p \in PaymentsOf(d)
          PROVE  ~ InFlight(x, p.key)'
      <4>1. ~ InFlight(x, p.key)
        BY <3>1, NotInFlight
      <4> QED
        BY <4>1, OthersStay
    <3> QED
      BY <3>1, <3>2, <3>3 DEF SameKeyInFlight
  <2> QED
    BY <2>1, <2>2
<1>2. CASE c # d
  <2> SUFFICES ASSUME pc'[c] \in {"refer", "commit"}
               PROVE  W!Insertable(PaymentsOf(c))' /\ SameKeyInFlight(c)' = {}
    BY DEF KeysCurrent
  <2>1. pc[c] \in {"refer", "commit"} /\ PaymentsOf(c)' = PaymentsOf(c)
    BY <1>2, OthersStay
  <2>2. W!Insertable(PaymentsOf(c)) /\ SameKeyInFlight(c) = {}
    BY <1>0, <2>1 DEF KeysCurrent
  <2>3. W!Insertable(PaymentsOf(c))'
    BY <1>0, <2>1, <2>2 DEF W!Insertable
  <2>4. ASSUME NEW x \in Calls \ {c}, NEW p \in PaymentsOf(c), InFlight(x, p.key)'
        PROVE  FALSE
    <3>1. ~ InFlight(x, p.key)
      BY <2>2, NotInFlight
    <3>2. x = d
      BY <2>4, <3>1, OthersStay
    <3>3. PICK q \in PaymentsOf(d)' : q.key = p.key
      BY <2>4, <3>2 DEF InFlight
    <3>4. PaymentsOf(d)' = PaymentsOf(d) /\ SameKeyInFlight(d) = {}
      BY <2>4, <3>2, <3>3 DEF Quiet, KeyClaimed, InFlight
    <3>5. ~ InFlight(c, q.key)
      BY <1>2, <3>3, <3>4, NotInFlight
    <3> QED
      BY <2>1, <3>3, <3>5 DEF InFlight
  <2> QED
    BY <2>1, <2>3, <2>4 DEF SameKeyInFlight
<1> QED
  BY <1>1, <1>2

\* A quiet statement disturbs nobody.
LEMMA QuietKeeps ==
  ASSUME Inv, NEW d \in Calls, Quiet(d)
  PROVE  WorkIsCurrent'
<1>1. Exclusive(held')
  BY InvParts, StaysExclusive DEF Quiet, OnlyCall, Locking
<1>2. ASSUME NEW c \in Calls \ {d}
      PROVE  Current(c)'
  BY InvParts, Undisturbed DEF Quiet, OnlyCall
<1> QED
  BY <1>1, <1>2, QuietKeepsKeys DEF WorkIsCurrent, Current, Quiet

\* A call that has its answer relies on nothing any more.
LEMMA AnswerShape ==
  ASSUME Inv, NEW d \in Calls, NEW kind, NEW b, Answer(d, kind, b), pc[d] # "idle"
  PROVE  OnlyCall(d) /\ Locking(d) /\ KeyClaimed(d) /\ Current(d)'
<1>1. /\ DOMAIN held' = Calls /\ held'[d] = {} /\ pc'[d] = "done" /\ req' = req
      /\ OnlyCall(d)
  BY DEF Answer, OnlyCall, Inv, TypeOK
<1>2. req[d] # None
  BY InvParts DEF Current
<1> QED
  BY <1>1, <1>2 DEF Locking, KeyClaimed, Current, PlaceCurrent, SettleCurrent, CancelCurrent

LEMMA ReturnIsQuiet ==
  ASSUME Inv, NEW d \in Calls, NEW kind, Return(d, kind), pc[d] # "idle"
  PROVE  Quiet(d)
BY AnswerShape DEF Return, Quiet, database, tables

\* A statement that goes on has its locks and everything it had before.
LEMMA StatementShape ==
  ASSUME Inv, NEW d \in Calls, NEW label, Statement(d, label), Granted(d),
         \A c \in Calls \ {d} : snap'[c] = snap[c] /\ rows'[c] = rows[c]
  PROVE  /\ UNCHANGED tables /\ req' = req
         /\ OnlyCall(d) /\ Locking(d)
         /\ pc'[d] = label
         /\ held'[d] = held[d] \cup Wanted(d)
BY DEF Statement, database, tables, OnlyCall, Locking, Inv, TypeOK

\* The locks each statement takes.
LEMMA WantedAt ==
  ASSUME NEW c \in Calls
  PROVE  /\ pc[c] = "user" => Wanted(c) = ForUpdate("user", {req[c].user} \cap Users)
         /\ pc[c] = "outcome" => Wanted(c) = ForUpdate("outcome", {req[c].outcome} \cap Outcomes)
         /\ pc[c] = "outcomes" => Wanted(c) = ForUpdate("outcome", FirstUnlocked(c))
         /\ pc[c] = "event" => Wanted(c) = ForUpdate("event", {EventFor(c)} \cap Events)
         /\ pc[c] = "bet" => Wanted(c) = KeyShare("snapshot", {SnapshotId(snap[c])})
                                           \cup KeyShare("session", {req[c].session} \ {None})
         /\ pc[c] = "rows" => Wanted(c) = ForUpdate("bet", Due(c))
              \cup ForUpdate("snapshot", {SnapshotId(bets[b].snap) : b \in Due(c)})
         /\ pc[c] = "refer" => Wanted(c) = KeyShare("user", {bets[b].user : b \in rows[c]})
         /\ pc[c] \in {"key", "price", "session", "payment", "credit", "commit"} => Wanted(c) = {}
BY DEF Wanted

\* Statements that take no locks are granted what they want.
LEMMA NothingWanted ==
  ASSUME NEW c \in Calls, pc[c] \in {"key", "price", "session", "payment", "credit", "commit"}
  PROVE  Granted(c)
BY WantedAt DEF Granted, Holders

\* A statement after or at which the payments are inserted, and new.
LEMMA ProceedClaims ==
  ASSUME Inv, NEW d \in Calls, NEW label, Proceed(d, label), pc[d] \notin {"idle", "done"},
         W!Insertable(PaymentsOf(d)), SameKeyInFlight(d) = {}
  PROVE  KeyClaimed(d)
<1>1. /\ req[d] \in Requests
      /\ req'[d] = req[d] /\ snap'[d] = snap[d] /\ rows'[d] = rows[d] /\ bets' = bets
  BY InsertedRequest DEF Proceed, Statement, database
<1> QED
  BY <1>1, PaymentsStay DEF KeyClaimed

-----------------------------------------------------------------------------
(* Every statement but the commits is quiet: starting and place_bet. *)

LEMMA StartIsQuiet ==
  ASSUME Inv, NEW d \in Calls, NEW r \in Requests, Start(d, r)
  PROVE  Quiet(d)
<1>1. /\ UNCHANGED tables /\ OnlyCall(d) /\ held' = held /\ bets' = bets /\ pc[d] = "idle"
      /\ req'[d] = r /\ pc'[d] \in {"user", "outcome", "outcomes", "event", "done"}
      /\ pc'[d] = "event" => r.op = "cancel" /\ OutcomesOf(r.event) = {}
      /\ pc'[d] = "user" => r.op = "place"
      /\ pc'[d] = "outcome" => r.op = "settle"
      /\ pc'[d] = "outcomes" => r.op = "cancel"
      /\ pc'[d] = "user" => ~ (Quantized(r.stake) <= 0)
  <2>1. /\ r.op = "place"  => FirstLabel(r) = "user"
        /\ r.op = "settle" => FirstLabel(r) = "outcome"
        /\ r.op = "cancel" => FirstLabel(r) = IF OutcomesOf(r.event) = {} THEN "event"
                                                                          ELSE "outcomes"
    BY DEF FirstLabel
  <2> QED
    BY <2>1, RequestTypes DEF Start, OnlyCall, database, tables, Inv, TypeOK
<1>2. Locking(d) /\ KeyClaimed(d)
  BY <1>1 DEF Locking, KeyClaimed, Inv, TypeOK
<1>3. r # None /\ bets[d] = None
  BY <1>1, InvParts, BettingAssumption DEF Current
<1>4. PlaceCurrent(d)'
  <2>1. pc'[d] = "user" => Quantized(r.stake) > 0
    BY <1>1, RequestTypes DEF Quantized, HalfEven
  <2> QED
    BY <1>1, <2>1 DEF PlaceCurrent
<1>5. SettleCurrent(d)'
  BY <1>1 DEF SettleCurrent
<1>6. CancelCurrent(d)'
  BY <1>1 DEF CancelCurrent
<1> QED
  BY <1>1, <1>2, <1>3, <1>4, <1>5, <1>6 DEF Quiet, Current

\* A statement of place_bet that goes on to label keeps what was relied on
\* before; what is new at label is left to show.
LEMMA PlaceGoesOn ==
  ASSUME Inv, NEW d \in Calls, NEW label, Statement(d, label), Granted(d),
         \A c \in Calls \ {d} : snap'[c] = snap[c] /\ rows'[c] = rows[c],
         pc[d] \notin {"idle", "done"}, req[d].op = "place", PlaceCurrent(d)',
         label \in {"refer", "commit"} => KeyClaimed(d)
  PROVE  Quiet(d)
<1>1. /\ UNCHANGED tables /\ req' = req /\ OnlyCall(d) /\ Locking(d) /\ pc'[d] = label
  BY StatementShape
<1>2. SettleCurrent(d)' /\ CancelCurrent(d)'
  BY <1>1 DEF SettleCurrent, CancelCurrent
<1>3. req[d] # None /\ bets[d] = None
  BY InvParts DEF Current
<1>4. bets' = bets
  BY <1>1 DEF tables
<1> QED
  BY <1>1, <1>2, <1>3, <1>4 DEF Quiet, Current, KeyClaimed

LEMMA PlaceIsQuiet ==
  ASSUME Inv, NEW d \in Calls,
         \/ PlaceLockUser(d) \/ PlaceCheckKey(d) \/ PlaceLockOutcome(d) \/ PlaceLockEvent(d)
         \/ PlaceReadPrice(d) \/ PlaceCheckSession(d) \/ PlaceInsertBet(d)
         \/ PlaceInsertPayment(d)
  PROVE  Quiet(d)
<1>0. PlaceCurrent(d)
  BY InvParts DEF Current
<1>1. CASE PlaceLockUser(d)
  <2>1. CASE req[d].user \in Users /\ Proceed(d, "key")
    <3>1. Statement(d, "key") /\ Granted(d) /\ pc[d] = "user" /\ req[d].op = "place"
          /\ \A c \in Calls \ {d} : snap'[c] = snap[c] /\ rows'[c] = rows[c]
      BY <1>1, <2>1 DEF PlaceLockUser, Proceed, At
    <3>2. PlaceCurrent(d)'
      BY <1>0, <2>1, <3>1, StatementShape DEF PlaceCurrent
    <3> QED
      BY <3>1, <3>2, PlaceGoesOn
  <2> QED
    BY <1>1, <2>1, ReturnIsQuiet DEF PlaceLockUser, Reject, At
<1>2. CASE PlaceCheckKey(d)
  <2>1. CASE Proceed(d, "outcome")
    <3>1. Statement(d, "outcome") /\ Granted(d) /\ pc[d] = "key" /\ req[d].op = "place"
          /\ \A c \in Calls \ {d} : snap'[c] = snap[c] /\ rows'[c] = rows[c]
      BY <1>2, <2>1, NothingWanted DEF PlaceCheckKey, Proceed, At
    <3>2. PlaceCurrent(d)'
      BY <1>0, <2>1, <3>1, StatementShape DEF PlaceCurrent
    <3> QED
      BY <3>1, <3>2, PlaceGoesOn
  <2>2. CASE ~ Proceed(d, "outcome")
    <3>1. PICK p \in payments : Answer(d, "replayed", p.bet) /\ UNCHANGED database
      BY <1>2, <2>2 DEF PlaceCheckKey
    <3>2. pc[d] # "idle"
      BY <1>2 DEF PlaceCheckKey, At
    <3> QED
      BY <3>1, <3>2, AnswerShape DEF Quiet, database, tables
  <2> QED
    BY <2>1, <2>2
<1>3. CASE PlaceLockOutcome(d)
  <2> DEFINE o == req[d].outcome
  <2>1. CASE o \in Outcomes /\ outcomeStatus[o] = "open" /\ Proceed(d, "event")
    <3>1. Statement(d, "event") /\ Granted(d) /\ pc[d] = "outcome" /\ req[d].op = "place"
          /\ \A c \in Calls \ {d} : snap'[c] = snap[c] /\ rows'[c] = rows[c]
      BY <1>3, <2>1 DEF PlaceLockOutcome, Proceed, At
    <3>2. Has(d, "outcome", o)'
      <4>1. Wanted(d) = ForUpdate("outcome", {o})
        BY <2>1, <3>1, WantedAt
      <4> QED
        BY <3>1, <4>1, StatementShape DEF Has, ForUpdate
    <3>3. PlaceCurrent(d)'
      BY <1>0, <2>1, <3>1, <3>2, StatementShape DEF PlaceCurrent, tables, Has
    <3> QED
      BY <3>1, <3>3, PlaceGoesOn
  <2> QED
    BY <1>3, <2>1, ReturnIsQuiet DEF PlaceLockOutcome, Reject, At
<1>4. CASE PlaceLockEvent(d)
  <2> DEFINE o == req[d].outcome
  <2>1. CASE eventStatus[EventFor(d)] \in TakesBets /\ Proceed(d, "price")
    <3>1. Statement(d, "price") /\ Granted(d) /\ pc[d] = "event" /\ req[d].op = "place"
          /\ \A c \in Calls \ {d} : snap'[c] = snap[c] /\ rows'[c] = rows[c]
      BY <1>4, <2>1 DEF PlaceLockEvent, Proceed, At
    <3>2. EventFor(d) = EventOf[o] /\ o \in Outcomes /\ EventOf[o] \in Events
      BY <1>0, <3>1, TablesAssumption DEF EventFor, PlaceCurrent
    <3>3. Has(d, "event", EventOf[o])'
      <4>1. Wanted(d) = ForUpdate("event", {EventOf[o]})
        BY <3>1, <3>2, WantedAt
      <4> QED
        BY <3>1, <4>1, StatementShape DEF Has, ForUpdate
    <3>4. PlaceCurrent(d)'
      BY <1>0, <2>1, <3>1, <3>2, <3>3, StatementShape DEF PlaceCurrent, tables, Has
    <3> QED
      BY <3>1, <3>4, PlaceGoesOn
  <2> QED
    BY <1>4, <2>1, ReturnIsQuiet DEF PlaceLockEvent, Reject, At
<1>5. CASE PlaceReadPrice(d)
  <2>1. ASSUME NEW s \in snapshots, IsNewest(s, snapshots, req[d].outcome),
               snap' = [snap EXCEPT ![d] = s], UNCHANGED rows,
               Statement(d, IF req[d].session = None THEN "bet" ELSE "session")
        PROVE  Quiet(d)
    <3> DEFINE label == IF req[d].session = None THEN "bet" ELSE "session"
    <3>1. Granted(d) /\ pc[d] = "price" /\ req[d].op = "place"
          /\ (\A c \in Calls \ {d} : snap'[c] = snap[c] /\ rows'[c] = rows[c])
          /\ snap'[d] = s /\ Statement(d, label) /\ label \in {"bet", "session"}
      BY <1>5, <2>1, NothingWanted DEF PlaceReadPrice, At, Inv, TypeOK
    <3> HIDE DEF label
    <3>2. PlaceCurrent(d)'
      BY <1>0, <2>1, <3>1, StatementShape DEF PlaceCurrent, tables, Has
    <3> QED
      BY <3>1, <3>2, PlaceGoesOn
  <2>2. CASE Reject(d)
    BY <1>5, <2>2, ReturnIsQuiet DEF PlaceReadPrice, Reject, At
  <2> QED
    BY <1>5, <2>1, <2>2 DEF PlaceReadPrice
<1>6. CASE PlaceCheckSession(d)
  <2>1. CASE Proceed(d, "bet")
    <3>1. Statement(d, "bet") /\ Granted(d) /\ pc[d] = "session" /\ req[d].op = "place"
          /\ (\A c \in Calls \ {d} : snap'[c] = snap[c] /\ rows'[c] = rows[c])
          /\ snap' = snap
      BY <1>6, <2>1, NothingWanted DEF PlaceCheckSession, Proceed, At
    <3>2. PlaceCurrent(d)'
      BY <1>0, <3>1, StatementShape DEF PlaceCurrent, tables, Has
    <3> QED
      BY <3>1, <3>2, PlaceGoesOn
  <2> QED
    BY <1>6, <2>1, ReturnIsQuiet DEF PlaceCheckSession, Reject, At
<1>7. CASE PlaceInsertBet(d)
  <2>1. CASE Quantized(req[d].stake) <= MaxMoney /\ Proceed(d, "payment")
    <3>1. Statement(d, "payment") /\ Granted(d) /\ pc[d] = "bet" /\ req[d].op = "place"
          /\ (\A c \in Calls \ {d} : snap'[c] = snap[c] /\ rows'[c] = rows[c])
          /\ snap' = snap
      BY <1>7, <2>1 DEF PlaceInsertBet, Proceed, At
    <3>2. PlaceCurrent(d)'
      BY <1>0, <2>1, <3>1, StatementShape DEF PlaceCurrent, tables, Has
    <3> QED
      BY <3>1, <3>2, PlaceGoesOn
  <2> QED
    BY <1>7, <2>1, ReturnIsQuiet DEF PlaceInsertBet, At
<1>8. CASE PlaceInsertPayment(d)
  <2>1. CASE W!Insertable(PaymentsOf(d)) /\ Proceed(d, "commit")
    <3>1. Statement(d, "commit") /\ Granted(d) /\ pc[d] = "payment" /\ req[d].op = "place"
          /\ (\A c \in Calls \ {d} : snap'[c] = snap[c] /\ rows'[c] = rows[c])
          /\ snap' = snap /\ SameKeyInFlight(d) = {}
      BY <1>8, <2>1, NothingWanted DEF PlaceInsertPayment, InsertPayments, Proceed, At
    <3>2. KeyClaimed(d)
      BY <2>1, <3>1, ProceedClaims
    <3>3. PlaceCurrent(d)'
      BY <1>0, <2>1, <3>1, StatementShape DEF PlaceCurrent, tables, Has
    <3> QED
      BY <3>1, <3>2, <3>3, PlaceGoesOn
  <2> QED
    BY <1>8, <2>1, ReturnIsQuiet DEF PlaceInsertPayment, InsertPayments, At
<1> QED
  BY <1>1, <1>2, <1>3, <1>4, <1>5, <1>6, <1>7, <1>8

-----------------------------------------------------------------------------
(* Settling, cancelling, failing. *)

\* The same for settle_outcome and cancel_event.
LEMMA SettleGoesOn ==
  ASSUME Inv, NEW d \in Calls, NEW label, Statement(d, label), Granted(d),
         \A c \in Calls \ {d} : snap'[c] = snap[c] /\ rows'[c] = rows[c],
         pc[d] \notin {"idle", "done"}, req[d].op = "settle", SettleCurrent(d)',
         label \in {"refer", "commit"} => KeyClaimed(d)
  PROVE  Quiet(d)
<1>1. /\ UNCHANGED tables /\ req' = req /\ OnlyCall(d) /\ Locking(d) /\ pc'[d] = label
  BY StatementShape
<1>2. PlaceCurrent(d)' /\ CancelCurrent(d)'
  BY <1>1 DEF PlaceCurrent, CancelCurrent
<1>3. req[d] # None /\ bets[d] = None
  BY InvParts DEF Current
<1>4. bets' = bets
  BY <1>1 DEF tables
<1> QED
  BY <1>1, <1>2, <1>3, <1>4 DEF Quiet, Current, KeyClaimed

LEMMA CancelGoesOn ==
  ASSUME Inv, NEW d \in Calls, NEW label, Statement(d, label), Granted(d),
         \A c \in Calls \ {d} : snap'[c] = snap[c] /\ rows'[c] = rows[c],
         pc[d] \notin {"idle", "done"}, req[d].op = "cancel", CancelCurrent(d)',
         label \in {"refer", "commit"} => KeyClaimed(d)
  PROVE  Quiet(d)
<1>1. /\ UNCHANGED tables /\ req' = req /\ OnlyCall(d) /\ Locking(d) /\ pc'[d] = label
  BY StatementShape
<1>2. PlaceCurrent(d)' /\ SettleCurrent(d)'
  BY <1>1 DEF PlaceCurrent, SettleCurrent
<1>3. req[d] # None /\ bets[d] = None
  BY InvParts DEF Current
<1>4. bets' = bets
  BY <1>1 DEF tables
<1> QED
  BY <1>1, <1>2, <1>3, <1>4 DEF Quiet, Current, KeyClaimed

LEMMA SettleIsQuiet ==
  ASSUME Inv, NEW d \in Calls,
         \/ SettleLockOutcome(d) \/ SettleLockEvent(d) \/ SettleLockBets(d)
         \/ SettleInsertPayouts(d) \/ SettleReferPayouts(d)
  PROVE  Quiet(d)
<1>0. SettleCurrent(d) /\ KeysCurrent(d)
  BY InvParts DEF Current
<1> DEFINE o == req[d].outcome
<1>1. CASE SettleLockOutcome(d)
  <2>1. CASE o \in Outcomes /\ outcomeStatus[o] = "open" /\ Proceed(d, "event")
    <3>1. Statement(d, "event") /\ Granted(d) /\ pc[d] = "outcome" /\ req[d].op = "settle"
          /\ \A c \in Calls \ {d} : snap'[c] = snap[c] /\ rows'[c] = rows[c]
      BY <1>1, <2>1 DEF SettleLockOutcome, Proceed, At
    <3>2. Has(d, "outcome", o)'
      <4>1. Wanted(d) = ForUpdate("outcome", {o})
        BY <2>1, <3>1, WantedAt
      <4> QED
        BY <3>1, <4>1, StatementShape DEF Has, ForUpdate
    <3>3. SettleCurrent(d)'
      BY <1>0, <2>1, <3>1, <3>2, StatementShape DEF SettleCurrent, tables, Has
    <3> QED
      BY <3>1, <3>3, SettleGoesOn
  <2> QED
    BY <1>1, <2>1, ReturnIsQuiet DEF SettleLockOutcome, Reject, At
<1>2. CASE SettleLockEvent(d)
  <2>1. CASE eventStatus[EventFor(d)] # "cancelled" /\ Proceed(d, "rows")
    <3>1. Statement(d, "rows") /\ Granted(d) /\ pc[d] = "event" /\ req[d].op = "settle"
          /\ \A c \in Calls \ {d} : snap'[c] = snap[c] /\ rows'[c] = rows[c]
      BY <1>2, <2>1 DEF SettleLockEvent, Proceed, At
    <3>2. EventFor(d) = EventOf[o] /\ o \in Outcomes /\ EventOf[o] \in Events
      BY <1>0, <3>1, TablesAssumption DEF EventFor, SettleCurrent
    <3>3. Has(d, "event", EventOf[o])'
      <4>1. Wanted(d) = ForUpdate("event", {EventOf[o]})
        BY <3>1, <3>2, WantedAt
      <4> QED
        BY <3>1, <4>1, StatementShape DEF Has, ForUpdate
    <3>4. SettleCurrent(d)'
      BY <1>0, <2>1, <3>1, <3>2, <3>3, StatementShape DEF SettleCurrent, tables, Has
    <3> QED
      BY <3>1, <3>4, SettleGoesOn
  <2> QED
    BY <1>2, <2>1, ReturnIsQuiet DEF SettleLockEvent, At
<1>3. CASE SettleLockBets(d)
  <2> DEFINE label == IF req[d].won /\ Due(d) # {} THEN "credit" ELSE "commit"
  <2>1. Statement(d, label) /\ Granted(d) /\ pc[d] = "rows" /\ req[d].op = "settle"
        /\ (\A c \in Calls \ {d} : snap'[c] = snap[c] /\ rows'[c] = rows[c])
        /\ rows'[d] = PendingOn(bets, {o})
    BY <1>3 DEF SettleLockBets, At, Inv, TypeOK, Due, MarketsOf
  <2>2. label = "commit" => ~ req[d].won \/ rows'[d] = {}
    BY <2>1 DEF Due, MarketsOf
  <2>3. label \in {"credit", "commit"}
    OBVIOUS
  <2> HIDE DEF label
  <2>4. req' = req /\ UNCHANGED tables /\ pc'[d] = label
        /\ held'[d] = held[d] \cup Wanted(d)
    BY <2>1, StatementShape
  <2>5. label = "commit" => KeyClaimed(d)
    <3>1. req[d].won \in BOOLEAN
      BY <2>1, InsertedRequest, RequestTypes
    <3>2. CASE ~ req[d].won
      BY <2>1, <2>4, <3>2 DEF KeyClaimed, PaymentsOf
    <3>3. CASE req[d].won /\ rows'[d] = {}
      BY <2>1, <2>4, <3>3 DEF KeyClaimed, PaymentsOf
    <3> QED
      BY <2>2, <3>1, <3>2, <3>3
  <2>6. SettleCurrent(d)'
    BY <1>0, <2>1, <2>3, <2>4 DEF SettleCurrent, tables, Has
  <2> QED
    BY <2>1, <2>3, <2>5, <2>6, SettleGoesOn
<1>4. CASE SettleInsertPayouts(d)
  <2>1. CASE W!Insertable(PaymentsOf(d)) /\ Proceed(d, "refer")
    <3>1. Statement(d, "refer") /\ Granted(d) /\ pc[d] = "credit" /\ req[d].op = "settle"
          /\ (\A c \in Calls \ {d} : snap'[c] = snap[c] /\ rows'[c] = rows[c])
          /\ rows' = rows /\ SameKeyInFlight(d) = {}
      BY <1>4, <2>1, NothingWanted DEF SettleInsertPayouts, InsertPayments, Proceed, At
    <3>2. KeyClaimed(d)
      BY <2>1, <3>1, ProceedClaims
    <3>3. SettleCurrent(d)'
      BY <1>0, <3>1, StatementShape DEF SettleCurrent, tables, Has
    <3> QED
      BY <3>1, <3>2, <3>3, SettleGoesOn
  <2> QED
    BY <1>4, <2>1, ReturnIsQuiet DEF SettleInsertPayouts, InsertPayments, At
<1>5. CASE SettleReferPayouts(d)
  <2>1. Statement(d, "commit") /\ Granted(d) /\ pc[d] = "refer" /\ req[d].op = "settle"
        /\ (\A c \in Calls \ {d} : snap'[c] = snap[c] /\ rows'[c] = rows[c])
        /\ rows' = rows /\ Proceed(d, "commit")
    BY <1>5 DEF SettleReferPayouts, Proceed, At
  <2>2. KeyClaimed(d)
    BY <1>0, <2>1, ProceedClaims DEF KeysCurrent
  <2>3. SettleCurrent(d)'
    BY <1>0, <2>1, StatementShape DEF SettleCurrent, tables, Has
  <2> QED
    BY <2>1, <2>2, <2>3, SettleGoesOn
<1> QED
  BY <1>1, <1>2, <1>3, <1>4, <1>5

LEMMA CancelIsQuiet ==
  ASSUME Inv, NEW d \in Calls,
         \/ CancelLockOutcome(d) \/ CancelLockEvent(d) \/ CancelLockBets(d)
         \/ CancelInsertRefunds(d) \/ CancelReferRefunds(d)
  PROVE  Quiet(d)
<1>0. CancelCurrent(d) /\ KeysCurrent(d)
  BY InvParts DEF Current
<1> DEFINE e == req[d].event
<1>1. CASE CancelLockOutcome(d)
  <2> DEFINE label == IF Unlocked(d) = FirstUnlocked(d) THEN "event" ELSE "outcomes"
  <2>1. Statement(d, label) /\ Granted(d) /\ pc[d] = "outcomes" /\ req[d].op = "cancel"
        /\ \A c \in Calls \ {d} : snap'[c] = snap[c] /\ rows'[c] = rows[c]
    BY <1>1 DEF CancelLockOutcome, Proceed, At
  <2>2. label = "event" => Unlocked(d) = FirstUnlocked(d)
    OBVIOUS
  <2>3. label \in {"event", "outcomes"}
    OBVIOUS
  <2> HIDE DEF label
  <2>4. req' = req /\ pc'[d] = label /\ held'[d] = held[d] \cup Wanted(d)
    BY <2>1, StatementShape
  <2>5. ASSUME label = "event", NEW x \in OutcomesOf(e)
        PROVE  Has(d, "outcome", x)'
    <3>1. CASE x \in Unlocked(d)
      <4>1. Wanted(d) = ForUpdate("outcome", Unlocked(d))
        BY <2>1, <2>2, <2>5, WantedAt
      <4> QED
        BY <2>4, <3>1, <4>1 DEF Has, ForUpdate
    <3>2. CASE x \notin Unlocked(d)
      <4>1. held[d] \cap ForUpdate("outcome", {x}) # {}
        BY <2>5, <3>2 DEF Unlocked
      <4> QED
        BY <2>4, <4>1 DEF Has, ForUpdate
    <3> QED
      BY <3>1, <3>2
  <2>6. CancelCurrent(d)'
    BY <2>1, <2>3, <2>4, <2>5 DEF CancelCurrent, OutcomesOf
  <2> QED
    BY <2>1, <2>3, <2>6, CancelGoesOn
<1>2. CASE CancelLockEvent(d)
  <2>1. CASE e \in Events /\ eventStatus[e] \in TakesBets /\ Proceed(d, "rows")
    <3>1. Statement(d, "rows") /\ Granted(d) /\ pc[d] = "event" /\ req[d].op = "cancel"
          /\ \A c \in Calls \ {d} : snap'[c] = snap[c] /\ rows'[c] = rows[c]
      BY <1>2, <2>1 DEF CancelLockEvent, Proceed, At
    <3>2. req' = req /\ UNCHANGED tables /\ pc'[d] = "rows"
          /\ held'[d] = held[d] \cup Wanted(d)
      BY <3>1, StatementShape
    <3>3. Has(d, "event", req[d].event)'
      <4>1. Wanted(d) = ForUpdate("event", {req[d].event})
        BY <2>1, <3>1, WantedAt DEF EventFor
      <4> QED
        BY <3>2, <4>1 DEF Has, ForUpdate
    <3>4. CancelCurrent(d)'
      BY <1>0, <2>1, <3>1, <3>2, <3>3 DEF CancelCurrent, tables, Has, OutcomesOf
    <3> QED
      BY <3>1, <3>4, CancelGoesOn
  <2> QED
    BY <1>2, <2>1, ReturnIsQuiet DEF CancelLockEvent, Reject, At
<1>3. CASE CancelLockBets(d)
  <2> DEFINE label == IF Due(d) # {} THEN "credit" ELSE "commit"
  <2>1. Statement(d, label) /\ Granted(d) /\ pc[d] = "rows" /\ req[d].op = "cancel"
        /\ (\A c \in Calls \ {d} : snap'[c] = snap[c] /\ rows'[c] = rows[c])
        /\ rows'[d] = PendingOn(bets, OutcomesOf(e))
    BY <1>3 DEF CancelLockBets, At, Inv, TypeOK, Due, MarketsOf
  <2>2. /\ label \in {"credit", "commit"}
        /\ label = "commit" => Due(d) = {}
    OBVIOUS
  <2> HIDE DEF label
  <2>3. req' = req /\ UNCHANGED tables /\ pc'[d] = label
        /\ held'[d] = held[d] \cup Wanted(d)
    BY <2>1, StatementShape
  <2>4. CancelCurrent(d)'
    BY <1>0, <2>1, <2>2, <2>3 DEF CancelCurrent, tables, Has, OutcomesOf
  <2>5. label = "commit" => KeyClaimed(d)
    <3> SUFFICES ASSUME label = "commit"
                 PROVE  KeyClaimed(d)
      OBVIOUS
    <3>1. rows'[d] = {}
      BY <2>1, <2>2 DEF Due, MarketsOf
    <3> QED
      BY <2>1, <2>3, <3>1 DEF KeyClaimed, PaymentsOf
  <2> QED
    BY <2>1, <2>2, <2>4, <2>5, CancelGoesOn
<1>4. CASE CancelInsertRefunds(d)
  <2>1. CASE W!Insertable(PaymentsOf(d)) /\ Proceed(d, "refer")
    <3>1. Statement(d, "refer") /\ Granted(d) /\ pc[d] = "credit" /\ req[d].op = "cancel"
          /\ (\A c \in Calls \ {d} : snap'[c] = snap[c] /\ rows'[c] = rows[c])
          /\ rows' = rows /\ SameKeyInFlight(d) = {}
      BY <1>4, <2>1, NothingWanted DEF CancelInsertRefunds, InsertPayments, Proceed, At
    <3>2. KeyClaimed(d)
      BY <2>1, <3>1, ProceedClaims
    <3>3. CancelCurrent(d)'
      BY <1>0, <3>1, StatementShape DEF CancelCurrent, tables, Has, OutcomesOf
    <3> QED
      BY <3>1, <3>2, <3>3, CancelGoesOn
  <2> QED
    BY <1>4, <2>1, ReturnIsQuiet DEF CancelInsertRefunds, InsertPayments, At
<1>5. CASE CancelReferRefunds(d)
  <2>1. Statement(d, "commit") /\ Granted(d) /\ pc[d] = "refer" /\ req[d].op = "cancel"
        /\ (\A c \in Calls \ {d} : snap'[c] = snap[c] /\ rows'[c] = rows[c])
        /\ rows' = rows /\ Proceed(d, "commit")
    BY <1>5 DEF CancelReferRefunds, Proceed, At
  <2>2. KeyClaimed(d)
    BY <1>0, <2>1, ProceedClaims DEF KeysCurrent
  <2>3. CancelCurrent(d)'
    BY <1>0, <2>1, StatementShape DEF CancelCurrent, tables, Has, OutcomesOf
  <2> QED
    BY <2>1, <2>2, <2>3, CancelGoesOn
<1> QED
  BY <1>1, <1>2, <1>3, <1>4, <1>5

LEMMA FailIsQuiet ==
  ASSUME Inv, NEW d \in Calls, Fail(d)
  PROVE  Quiet(d)
BY ReturnIsQuiet DEF Fail, Active

\* Only a call that waits can be in a deadlock.
LEMMA WaitingIsActive ==
  ASSUME NEW d \in Calls, WaitsFor[d] # {} \/ Wanted(d) # {}
  PROVE  pc[d] \notin {"idle", "done"}
<1> SUFFICES ASSUME pc[d] \in {"idle", "done"}
             PROVE  FALSE
  OBVIOUS
<1>1. Wanted(d) = {} /\ KeyHolders(d) = {}
  BY DEF Wanted, KeyHolders, Inserts
<1> QED
  BY <1>1 DEF WaitsFor, Holders

LEMMA DeadlockedIsActive ==
  ASSUME NEW d \in Calls, Deadlocked(d) \/ DeadlockedOutside(d)
  PROVE  pc[d] \notin {"idle", "done"} /\ RunAgain(d)
<1>1. CASE Deadlocked(d)
  <2>1. {} \in SUBSET DOMAIN WaitsFor
    OBVIOUS
  <2>2. WaitsFor[d] # {}
    BY <1>1, <2>1 DEF Deadlocked, OnCycle
  <2> QED
    BY <1>1, <2>2, WaitingIsActive DEF Deadlocked
<1>2. CASE DeadlockedOutside(d)
  <2>1. WaitsFor[d] # {} \/ Wanted(d) # {}
    BY <1>2 DEF DeadlockedOutside
  <2> QED
    BY <1>2, <2>1, WaitingIsActive DEF DeadlockedOutside
<1> QED
  BY <1>1, <1>2

\* The first statement of a transaction relies on nothing but the stake.
LEMMA RetryIsQuiet ==
  ASSUME Inv, NEW d \in Calls, Deadlocked(d) \/ DeadlockedOutside(d)
  PROVE  Quiet(d)
<1>0. pc[d] \notin {"idle", "done"} /\ RunAgain(d)
  BY DeadlockedIsActive
<1>1. CASE Return(d, "error")
  BY <1>0, <1>1, ReturnIsQuiet
<1>2. CASE ~ Return(d, "error")
  <2>1. /\ UNCHANGED database /\ UNCHANGED req /\ held' = [held EXCEPT ![d] = {}]
        /\ pc' = [pc EXCEPT ![d] = FirstLabel(req[d])]
        /\ snap' = [snap EXCEPT ![d] = None] /\ rows' = [rows EXCEPT ![d] = {}]
    BY <1>0, <1>2 DEF RunAgain
  <2>2. /\ UNCHANGED tables /\ OnlyCall(d) /\ Locking(d) /\ bets' = bets /\ req' = req
        /\ pc'[d] = FirstLabel(req[d])
    BY <2>1 DEF database, tables, OnlyCall, Locking, Inv, TypeOK
  <2>3. req[d] \in Requests /\ req[d] # None /\ bets[d] = None /\ PlaceCurrent(d)
    BY <1>0, InvParts DEF Current, TypeOK
  <2>4. /\ pc'[d] \in {"user", "outcome", "outcomes", "event"}
        /\ pc'[d] = "event" => req[d].op = "cancel" /\ OutcomesOf(req[d].event) = {}
        /\ pc'[d] = "user" => req[d].op = "place"
        /\ pc'[d] = "outcome" => req[d].op = "settle"
        /\ pc'[d] = "outcomes" => req[d].op = "cancel"
    <3>1. /\ req[d].op = "place"  => FirstLabel(req[d]) = "user"
          /\ req[d].op = "settle" => FirstLabel(req[d]) = "outcome"
          /\ req[d].op = "cancel" => FirstLabel(req[d]) =
                IF OutcomesOf(req[d].event) = {} THEN "event" ELSE "outcomes"
      BY DEF FirstLabel
    <3> QED
      BY <2>2, <2>3, <3>1, RequestTypes
  <2>5. PlaceCurrent(d)'
    BY <1>0, <2>2, <2>3, <2>4 DEF PlaceCurrent
  <2>6. SettleCurrent(d)' /\ CancelCurrent(d)'
    BY <2>2, <2>4 DEF SettleCurrent, CancelCurrent
  <2>7. KeyClaimed(d)
    BY <2>4 DEF KeyClaimed
  <2> QED
    BY <2>2, <2>3, <2>5, <2>6, <2>7 DEF Quiet, Current
<1> QED
  BY <1>1, <1>2

-----------------------------------------------------------------------------
(* What a commit changes is under the locks of its transaction. *)

\* d commits, and what it changes is about outcomes os and events es, which it
\* has locked: their status and their bets; the payments are those it inserted.
Footprint(d, os, es) ==
  /\ \A o \in os : Has(d, "outcome", o)
  /\ \A e \in es : Has(d, "event", e)
  /\ \A o \in Outcomes \ os : outcomeStatus'[o] = outcomeStatus[o]
  /\ \A e \in Events \ es : eventStatus'[e] = eventStatus[e]
  /\ snapshots' = snapshots
  /\ DOMAIN bets' = DOMAIN bets
  /\ \A b \in Calls :
       bets'[b] # bets[b] =>
         /\ bets'[b] # None /\ bets'[b].snap.outcome \in os
         /\ b = d \/ bets[b] # None
         /\ bets[b] # None => bets[b].snap.outcome \in os
  /\ payments' = payments \cup PaymentsOf(d)

\* A commit answers and drops the locks.
Ends(d) == /\ DOMAIN held' = Calls /\ held'[d] = {} /\ pc'[d] = "done" /\ req' = req
           /\ OnlyCall(d)

LEMMA PendingElsewhere ==
  ASSUME TypeOK, NEW d, NEW os, NEW es, Footprint(d, os, es), NEW xs, xs \cap os = {}
  PROVE  /\ PendingOn(bets', xs) = PendingOn(bets, xs)
         /\ \A b \in PendingOn(bets, xs) : bets'[b] = bets[b]
<1>1. DOMAIN bets = Calls /\ DOMAIN bets' = Calls
  BY TableTypes DEF Footprint
<1>2. ASSUME NEW b \in Calls, bets'[b] # bets[b]
      PROVE  b \notin PendingOn(bets, xs) /\ b \notin PendingOn(bets', xs)
  BY <1>2 DEF Footprint, PendingOn
<1>3. ASSUME NEW b \in Calls, bets'[b] = bets[b]
      PROVE  b \in PendingOn(bets, xs) <=> b \in PendingOn(bets', xs)
  BY <1>1, <1>3 DEF PendingOn
<1> QED
  BY <1>1, <1>2, <1>3 DEF PendingOn

\* The row somebody relies on is not one that another's commit changes.
LEMMA LockedElsewhere ==
  ASSUME Inv, NEW d \in Calls, NEW os, NEW es, Footprint(d, os, es), NEW c \in Calls \ {d}
  PROVE  /\ \A o : Has(c, "outcome", o) => o \notin os
         /\ \A e : Has(c, "event", e) => e \notin es
<1>0. TypeOK /\ Exclusive(held)
  BY InvParts
<1>1. ASSUME NEW o, Has(c, "outcome", o), o \in os
      PROVE  FALSE
  <2>1. Has(d, "outcome", o)
    BY <1>1 DEF Footprint
  <2> QED
    BY <1>0, <1>1, <2>1, OneOwner DEF Has
<1>2. ASSUME NEW e, Has(c, "event", e), e \in es
      PROVE  FALSE
  <2>1. Has(d, "event", e)
    BY <1>2 DEF Footprint
  <2> QED
    BY <1>0, <1>2, <2>1, OneOwner DEF Has
<1> QED
  BY <1>1, <1>2

\* Nor are the bets a settlement or a cancellation is about to resolve.
LEMMA RowsElsewhere ==
  ASSUME Inv, NEW d \in Calls, NEW os, NEW es, Footprint(d, os, es), NEW c \in Calls \ {d},
         pc[c] \in {"credit", "refer", "commit"}, req[c].op \in {"settle", "cancel"}
  PROVE  /\ \A b \in rows[c] : bets'[b] = bets[b]
         /\ req[c].op = "settle" =>
              PendingOn(bets', {req[c].outcome}) = PendingOn(bets, {req[c].outcome})
         /\ req[c].op = "cancel" =>
              PendingOn(bets', OutcomesOf(req[c].event)) = PendingOn(bets, OutcomesOf(req[c].event))
<1>0. TypeOK /\ SettleCurrent(c) /\ CancelCurrent(c)
  BY InvParts DEF Current
<1>1. CASE req[c].op = "settle"
  <2>1. rows[c] = PendingOn(bets, {req[c].outcome}) /\ Has(c, "outcome", req[c].outcome)
    BY <1>0, <1>1 DEF SettleCurrent
  <2>2. {req[c].outcome} \cap os = {}
    BY <2>1, LockedElsewhere
  <2> QED
    BY <1>0, <1>1, <2>1, <2>2, PendingElsewhere
<1>2. CASE req[c].op = "cancel"
  <2>1. /\ rows[c] = PendingOn(bets, OutcomesOf(req[c].event))
        /\ \A o \in OutcomesOf(req[c].event) : Has(c, "outcome", o)
    BY <1>0, <1>2 DEF CancelCurrent
  <2>2. OutcomesOf(req[c].event) \cap os = {}
    BY <2>1, LockedElsewhere
  <2> QED
    BY <1>0, <1>2, <2>1, <2>2, PendingElsewhere
<1> QED
  BY <1>1, <1>2

\* A commit leaves everybody the keys they have inserted: nobody had one of its own.
LEMMA CommitKeepsKeys ==
  ASSUME Inv, NEW d \in Calls, NEW os, NEW es, Footprint(d, os, es), Ends(d),
         pc[d] = "commit", NEW c \in Calls
  PROVE  KeysCurrent(c)'
<1>1. ASSUME NEW x \in Calls \ {d}
      PROVE  /\ pc'[x] = pc[x]
             /\ pc[x] \in {"refer", "commit"} => PaymentsOf(x)' = PaymentsOf(x)
             /\ \A k : InFlight(x, k)' <=> InFlight(x, k)
  <2>1. /\ pc'[x] = pc[x] /\ req'[x] = req[x]
        /\ snap'[x] = snap[x] /\ rows'[x] = rows[x]
    BY DEF Ends, OnlyCall
  <2>2. ASSUME pc[x] \in {"refer", "commit"}
        PROVE  PaymentsOf(x)' = PaymentsOf(x)
    <3>1. req[x] \in Requests
      BY <2>2, InsertedRequest
    <3>2. req[x].op \in {"settle", "cancel"} => \A b \in rows[x] : bets'[b] = bets[b]
      BY <2>2, RowsElsewhere
    <3> QED
      BY <2>1, <3>1, <3>2, PaymentsStay
  <2> QED
    BY <2>1, <2>2 DEF InFlight
<1>2. CASE c = d
  BY <1>2 DEF Ends, KeysCurrent
<1>3. CASE c # d
  <2> SUFFICES ASSUME pc'[c] \in {"refer", "commit"}
               PROVE  W!Insertable(PaymentsOf(c))' /\ SameKeyInFlight(c)' = {}
    BY DEF KeysCurrent
  <2>1. pc[c] \in {"refer", "commit"} /\ PaymentsOf(c)' = PaymentsOf(c)
    BY <1>1, <1>3
  <2>2. W!Insertable(PaymentsOf(c)) /\ SameKeyInFlight(c) = {}
    BY <2>1, InvParts DEF KeysCurrent
  <2>3. ASSUME NEW p \in PaymentsOf(c), NEW q \in PaymentsOf(d)
        PROVE  q.key # p.key
    <3>1. ~ InFlight(d, p.key)
      BY <1>3, <2>2, NotInFlight
    <3> QED
      BY <3>1 DEF InFlight
  <2>4. W!Insertable(PaymentsOf(c))'
    BY <2>1, <2>2, <2>3 DEF W!Insertable, Footprint
  <2>5. ASSUME NEW x \in Calls \ {c}, NEW p \in PaymentsOf(c)
        PROVE  ~ InFlight(x, p.key)'
    <3>1. ~ InFlight(x, p.key)
      BY <2>2, NotInFlight
    <3>2. x = d => ~ InFlight(x, p.key)'
      BY DEF Ends, InFlight
    <3> QED
      BY <1>1, <3>1, <3>2
  <2> QED
    BY <2>1, <2>4, <2>5 DEF SameKeyInFlight
<1> QED
  BY <1>2, <1>3

LEMMA CommitKeeps ==
  ASSUME Inv, NEW d \in Calls, NEW os, NEW es, Footprint(d, os, es), Ends(d),
         pc[d] = "commit"
  PROVE  WorkIsCurrent'
<1>0. TypeOK /\ Exclusive(held) /\ \A c \in Calls : Current(c)
  BY InvParts
<1>1. Exclusive(held')
  BY <1>0, StaysExclusive DEF Ends, OnlyCall
<1>2. Current(d)'
  BY <1>0 DEF Ends, Current, PlaceCurrent, SettleCurrent, CancelCurrent
<1>3. ASSUME NEW c \in Calls \ {d}
      PROVE  Current(c)'
  <2>1. /\ req'[c] = req[c] /\ pc'[c] = pc[c] /\ held'[c] = held[c]
        /\ snap'[c] = snap[c] /\ rows'[c] = rows[c]
    BY DEF Ends, OnlyCall
  <2>2. \A table, i : Has(c, table, i)' <=> Has(c, table, i)
    BY <2>1 DEF Has
  <2>3. \A o : Has(c, "outcome", o) => o \notin os
    BY LockedElsewhere
  <2>4. \A e : Has(c, "event", e) => e \notin es
    BY LockedElsewhere
  <2>5. bets'[c] = None <=> bets[c] = None
    BY DEF Footprint
  <2>6. PlaceCurrent(c)'
    <3>0. PlaceCurrent(c)
      BY <1>0 DEF Current
    <3>2. pc[c] \in {"event", "price", "session", "bet", "payment", "commit"}
          /\ req[c].op = "place"
            => outcomeStatus'[req[c].outcome] = outcomeStatus[req[c].outcome]
      <4> SUFFICES ASSUME pc[c] \in {"event", "price", "session", "bet", "payment", "commit"},
                          req[c].op = "place"
                   PROVE  outcomeStatus'[req[c].outcome] = outcomeStatus[req[c].outcome]
        OBVIOUS
      <4>1. req[c].outcome \in Outcomes /\ Has(c, "outcome", req[c].outcome)
        BY <3>0 DEF PlaceCurrent
      <4> QED
        BY <2>3, <4>1 DEF Footprint
    <3>3. pc[c] \in {"price", "session", "bet", "payment", "commit"} /\ req[c].op = "place"
            => eventStatus'[EventOf[req[c].outcome]] = eventStatus[EventOf[req[c].outcome]]
      <4> SUFFICES ASSUME pc[c] \in {"price", "session", "bet", "payment", "commit"},
                          req[c].op = "place"
                   PROVE  eventStatus'[EventOf[req[c].outcome]] = eventStatus[EventOf[req[c].outcome]]
        OBVIOUS
      <4>1. req[c].outcome \in Outcomes /\ Has(c, "event", EventOf[req[c].outcome])
        BY <3>0 DEF PlaceCurrent
      <4>2. EventOf[req[c].outcome] \in Events \ es
        BY <2>4, <4>1, TablesAssumption
      <4> QED
        BY <4>2 DEF Footprint
    <3>4. PlaceCurrent(c) /\ snapshots' = snapshots
      BY <3>0 DEF Footprint
    <3> QED
      BY <2>1, <2>2, <3>2, <3>3, <3>4 DEF PlaceCurrent
  <2>7. SettleCurrent(c)'
    <3>0. SettleCurrent(c)
      BY <1>0 DEF Current
    <3>1. pc[c] \in {"event", "rows", "credit", "refer", "commit"} /\ req[c].op = "settle"
            => outcomeStatus'[req[c].outcome] = outcomeStatus[req[c].outcome]
      BY <3>0, <2>3 DEF SettleCurrent, Footprint
    <3>2. pc[c] \in {"rows", "credit", "refer", "commit"} /\ req[c].op = "settle"
            => eventStatus'[EventOf[req[c].outcome]] = eventStatus[EventOf[req[c].outcome]]
      <4> SUFFICES ASSUME pc[c] \in {"rows", "credit", "refer", "commit"}, req[c].op = "settle"
                   PROVE  eventStatus'[EventOf[req[c].outcome]] = eventStatus[EventOf[req[c].outcome]]
        OBVIOUS
      <4>1. req[c].outcome \in Outcomes /\ Has(c, "event", EventOf[req[c].outcome])
        BY <3>0 DEF SettleCurrent
      <4>2. EventOf[req[c].outcome] \in Events \ es
        BY <2>4, <4>1, TablesAssumption
      <4> QED
        BY <4>2 DEF Footprint
    <3>3. pc[c] \in {"credit", "refer", "commit"} /\ req[c].op = "settle"
            => PendingOn(bets', {req[c].outcome}) = PendingOn(bets, {req[c].outcome})
      BY RowsElsewhere
    <3> QED
      BY <2>1, <2>2, <3>0, <3>1, <3>2, <3>3 DEF SettleCurrent
  <2>8. CancelCurrent(c)'
    <3>0. CancelCurrent(c)
      BY <1>0 DEF Current
    <3>1. pc[c] \in {"rows", "credit", "refer", "commit"} /\ req[c].op = "cancel"
            => eventStatus'[req[c].event] = eventStatus[req[c].event]
      BY <3>0, <2>4 DEF CancelCurrent, Footprint
    <3>2. pc[c] \in {"credit", "refer", "commit"} /\ req[c].op = "cancel"
            => PendingOn(bets', OutcomesOf(req[c].event)) = PendingOn(bets, OutcomesOf(req[c].event))
      BY RowsElsewhere
    <3> QED
      BY <2>1, <2>2, <3>0, <3>1, <3>2 DEF CancelCurrent, OutcomesOf
  <2> QED
    BY <1>0, <2>1, <2>5, <2>6, <2>7, <2>8 DEF Current
<1> QED
  BY <1>1, <1>2, <1>3, CommitKeepsKeys DEF WorkIsCurrent, Current

-----------------------------------------------------------------------------
(* The three commits: what they change, and which step of Wagers they are. *)

LEMMA CommittedEnds ==
  ASSUME TypeOK, NEW d \in Calls, NEW kind, NEW b, Committed(d, kind, b)
  PROVE  Ends(d)
BY DEF Committed, Answer, Ends, OnlyCall, TypeOK

LEMMA QuantizedIsInt == ASSUME NEW t \in Int PROVE Quantized(t) \in Int
<1>1. t \div 10 \in Int /\ t \div 10 + 1 \in Int
  OBVIOUS
<1> QED
  BY <1>1 DEF Quantized, HalfEven

LEMMA PlaceCommits ==
  ASSUME Inv, NEW d \in Calls, PlaceCommit(d)
  PROVE  W!Next /\ WorkIsCurrent'
<1> DEFINE o == req[d].outcome
           k == req[d].key
<1>1. /\ pc[d] = "commit" /\ req[d].op = "place" /\ req[d] \in Requests
      /\ PlaceCurrent(d) /\ KeysCurrent(d) /\ bets[d] = None /\ TypeOK
  BY InvParts DEF PlaceCommit, At, Current, TypeOK
<1>2. /\ o \in Outcomes /\ Has(d, "outcome", o) /\ outcomeStatus[o] = "open"
      /\ Has(d, "event", EventOf[o]) /\ eventStatus[EventOf[o]] \in TakesBets
      /\ IsNewest(snap[d], snapshots, o) /\ snap[d].outcome = o /\ snap[d] \in snapshots
      /\ req[d].user \in Users
      /\ Quantized(req[d].stake) > 0 /\ Quantized(req[d].stake) <= MaxMoney
  BY <1>1 DEF PlaceCurrent, IsNewest
<1>3. k \in Keys /\ req[d].stake \in Stakes /\ req[d].session \in Sessions \cup {None}
  BY <1>1, RequestTypes
<1>4. NewBet(d) \in W!NewBet
  <2>1. Quantized(req[d].stake) \in 1 .. MaxMoney
    <3>1. Quantized(req[d].stake) \in Int
      BY <1>3, TablesAssumption, QuantizedIsInt
    <3> QED
      BY <1>2, <3>1, TablesAssumption
  <2>2. W!Quantized(req[d].stake) = Quantized(req[d].stake)
    BY DEF W!Quantized, Quantized, W!HalfEven, HalfEven
  <2> QED
    BY <1>2, <1>3, <2>1, <2>2 DEF W!NewBet, NewBet
<1>5. NewBet(d).snap = snap[d] /\ NewBet(d) # None
  <2>1. NewBet(d) \in Bet
    BY <1>4, TableTypes, <1>1 DEF W!NewBet, Bet, BetStatus, NewBet
  <2> QED
    BY <2>1, NullAssumption DEF NewBet
<1>6. W!Place(d, NewBet(d), k)
  <2>1. /\ PaymentsOf(d) = {W!Charge(d, NewBet(d), k)}
        /\ W!IsNewest(snap[d], snapshots, o)
        /\ eventStatus[EventOf[o]] \in W!TakesBets
    BY <1>1, <1>2 DEF PaymentsOf, W!Charge, Charge, W!IsNewest, IsNewest, W!TakesBets
  <2>2. W!Insertable(PaymentsOf(d))
    BY <1>1 DEF KeysCurrent
  <2> HIDE DEF k
  <2> QED
    BY <1>1, <1>2, <1>5, <2>1, <2>2 DEF W!Place, PlaceCommit
<1>7. W!Next
  BY <1>3, <1>4, <1>6 DEF W!Next
<1>8. Footprint(d, {o}, {})
  <2>1. /\ bets' = [bets EXCEPT ![d] = NewBet(d)]
        /\ payments' = payments \cup PaymentsOf(d)
        /\ UNCHANGED <<eventStatus, outcomeStatus, snapshots>>
    BY DEF PlaceCommit
  <2>2. bets \in [Calls -> Bet \cup {None}]
    BY <1>1, TableTypes
  <2> QED
    BY <1>1, <1>2, <1>5, <2>1, <2>2 DEF Footprint
<1>9. Ends(d)
  BY <1>1, CommittedEnds DEF PlaceCommit
<1> QED
  BY <1>1, <1>7, <1>8, <1>9, CommitKeeps

\* The bets a settlement or a cancellation resolves are left with their status.
LEMMA ResolvedShape ==
  ASSUME TypeOK, NEW os, NEW bs, bs = PendingOn(bets, os), NEW status \in BetStatus
  PROVE  /\ bs \subseteq Calls
         /\ WithStatus(bs, status) = W!Resolved(bs, status)
         /\ DOMAIN WithStatus(bs, status) = Calls
         /\ \A b \in Calls :
              WithStatus(bs, status)[b] # bets[b] =>
                /\ bets[b] # None /\ bets[b].snap.outcome \in os
                /\ WithStatus(bs, status)[b] # None
                /\ WithStatus(bs, status)[b].snap.outcome \in os
<1>1. bets \in [Calls -> Bet \cup {None}]
  BY TableTypes
<1>2. ASSUME NEW b \in bs
      PROVE  /\ b \in Calls /\ bets[b] # None /\ bets[b].snap.outcome \in os
             /\ [bets[b] EXCEPT !.status = status] # None
             /\ [bets[b] EXCEPT !.status = status].snap = bets[b].snap
  <2>1. b \in Calls /\ bets[b] \in Bet /\ bets[b].snap.outcome \in os /\ bets[b] # None
    BY <1>1, <1>2 DEF PendingOn
  <2>2. [bets[b] EXCEPT !.status = status] \in Bet
    BY <2>1 DEF Bet
  <2>3. [bets[b] EXCEPT !.status = status].snap = bets[b].snap
    BY <2>1 DEF Bet
  <2> QED
    BY <2>1, <2>2, <2>3, NullAssumption
<1> QED
  BY <1>2 DEF WithStatus, W!Resolved

LEMMA SettleCommits ==
  ASSUME Inv, NEW d \in Calls, SettleCommit(d)
  PROVE  W!Next /\ WorkIsCurrent'
<1> DEFINE o == req[d].outcome
           won == req[d].won
           result == IF won THEN "won" ELSE "lost"
<1>1. /\ pc[d] = "commit" /\ req[d].op = "settle" /\ req[d] \in Requests
      /\ SettleCurrent(d) /\ KeysCurrent(d) /\ TypeOK
  BY InvParts DEF SettleCommit, At, Current, TypeOK
<1>2. /\ o \in Outcomes /\ Has(d, "outcome", o) /\ outcomeStatus[o] = "open"
      /\ eventStatus[EventOf[o]] # "cancelled"
      /\ rows[d] = PendingOn(bets, {o})
      /\ W!Insertable(PaymentsOf(d))
  BY <1>1 DEF SettleCurrent, KeysCurrent
<1>3. won \in BOOLEAN
  BY <1>1, RequestTypes
<1>4. /\ outcomeStatus' = [outcomeStatus EXCEPT ![o] = result]
      /\ bets' = WithStatus(rows[d], result)
      /\ payments' = payments \cup PaymentsOf(d)
      /\ UNCHANGED <<eventStatus, snapshots>>
  BY DEF SettleCommit
<1>5. result \in BetStatus
  BY DEF BetStatus
<1>6. W!PendingOn(bets, {o}) = rows[d]
  BY <1>2 DEF W!PendingOn, PendingOn
<1>7. bets' = W!Resolved(rows[d], result)
  BY <1>1, <1>2, <1>4, <1>5, ResolvedShape
<1>8. PaymentsOf(d) = IF won THEN {W!PayoutOf(b, bets[b]) : b \in rows[d]} ELSE {}
  <2>1. \A b : PayoutOf(b, bets[b]) = W!PayoutOf(b, bets[b])
    BY DEF PayoutOf, W!PayoutOf, PayoutKey, W!PayoutKey, Payout, W!Payout, HalfEven, W!HalfEven
  <2> QED
    BY <1>1, <1>3, <2>1 DEF PaymentsOf
<1>9. W!Settle(o, won)
  BY <1>2, <1>4, <1>6, <1>7, <1>8 DEF W!Settle
<1>10. W!Next
  BY <1>2, <1>3, <1>9 DEF W!Next
<1>11. Footprint(d, {o}, {})
  <2>2. bets \in [Calls -> Bet \cup {None}] /\ outcomeStatus \in [Outcomes -> OutcomeStatus]
    BY <1>1, TableTypes
  <2>3. /\ DOMAIN bets' = DOMAIN bets
        /\ \A b \in Calls : bets'[b] # bets[b] =>
             /\ bets[b] # None /\ bets[b].snap.outcome \in {o}
             /\ bets'[b] # None /\ bets'[b].snap.outcome \in {o}
    BY <1>1, <1>2, <1>4, <1>5, <2>2, ResolvedShape
  <2> QED
    BY <1>2, <1>4, <2>2, <2>3 DEF Footprint
<1>12. Ends(d)
  BY <1>1, CommittedEnds DEF SettleCommit
<1> QED
  BY <1>1, <1>10, <1>11, <1>12, CommitKeeps

LEMMA CancelCommits ==
  ASSUME Inv, NEW d \in Calls, CancelCommit(d)
  PROVE  W!Next /\ WorkIsCurrent'
<1> DEFINE e == req[d].event
           os == OutcomesOf(e)
           pays == PaymentsOf(d)
<1>1. /\ pc[d] = "commit" /\ req[d].op = "cancel"
      /\ CancelCurrent(d) /\ KeysCurrent(d) /\ TypeOK
  BY InvParts DEF CancelCommit, At, Current
<1>2. /\ e \in Events /\ Has(d, "event", e) /\ eventStatus[e] \in TakesBets
      /\ \A o \in os : Has(d, "outcome", o)
      /\ rows[d] = PendingOn(bets, os)
      /\ W!Insertable(pays)
  BY <1>1 DEF CancelCurrent, KeysCurrent
<1>3. /\ eventStatus' = [eventStatus EXCEPT ![e] = "cancelled"]
      /\ bets' = WithStatus(rows[d], "voided")
      /\ payments' = payments \cup pays
      /\ UNCHANGED <<outcomeStatus, snapshots>>
  BY DEF CancelCommit
<1>4. "voided" \in BetStatus
  BY DEF BetStatus
<1>5. W!PendingOn(bets, W!OutcomesOf(e)) = rows[d]
  BY <1>2 DEF W!PendingOn, PendingOn, W!OutcomesOf, OutcomesOf
<1>6. bets' = W!Resolved(rows[d], "voided")
  BY <1>1, <1>2, <1>3, <1>4, ResolvedShape
<1>7. pays = {W!RefundOf(b, bets[b]) : b \in W!PendingOn(bets, W!OutcomesOf(e))}
  <2>1. \A b : RefundOf(b, bets[b]) = W!RefundOf(b, bets[b])
    BY DEF RefundOf, W!RefundOf, VoidKey, W!VoidKey
  <2> QED
    BY <1>1, <1>5, <2>1 DEF PaymentsOf
<1>8. W!Cancel(e)
  <2>1. bets' = W!Resolved(W!PendingOn(bets, W!OutcomesOf(e)), "voided")
    BY <1>5, <1>6
  <2>2. eventStatus[e] \in W!TakesBets
    BY <1>2 DEF W!TakesBets
  <2> HIDE DEF pays
  <2> QED
    BY <1>2, <1>3, <1>7, <2>1, <2>2 DEF W!Cancel
<1>9. W!Next
  BY <1>2, <1>8 DEF W!Next
<1>10. Footprint(d, os, {e})
  <2>2. bets \in [Calls -> Bet \cup {None}] /\ eventStatus \in [Events -> EventStatus]
    BY <1>1, TableTypes
  <2>3. /\ DOMAIN bets' = DOMAIN bets
        /\ \A b \in Calls : bets'[b] # bets[b] =>
             /\ bets[b] # None /\ bets[b].snap.outcome \in os
             /\ bets'[b] # None /\ bets'[b].snap.outcome \in os
    BY <1>1, <1>2, <1>3, <1>4, <2>2, ResolvedShape
  <2> HIDE DEF os
  <2> QED
    BY <1>2, <1>3, <2>2, <2>3 DEF Footprint
<1>11. Ends(d)
  BY <1>1, CommittedEnds DEF CancelCommit
<1> QED
  BY <1>1, <1>9, <1>10, <1>11, CommitKeeps

-----------------------------------------------------------------------------
(* The types of the calls. *)

CallTypes ==
  /\ req \in [Calls -> Requests \cup {None}]
  /\ pc \in [Calls -> Labels]
  /\ attempt \in [Calls -> 1 .. MaxAttempts]
  /\ held \in [Calls -> SUBSET [row : LockedRows, mode : Modes]]
  /\ snap \in [Calls -> Snapshot \cup {None}]
  /\ rows \in [Calls -> SUBSET Calls]
  /\ reply \in [Calls -> [kind : Answers, bet : Calls \cup {None}]]

LEMMA TypeParts ==
  /\ TypeOK <=> W!TypeOK /\ endedSessions \subseteq Sessions /\ now \in Times /\ CallTypes
  /\ TypeOK' <=> W!TypeOK' /\ endedSessions' \subseteq Sessions /\ now' \in Times /\ CallTypes'
BY DEF TypeOK, CallTypes

\* The locks a statement takes are locks on rows there are.
LEMMA WantedTypes ==
  ASSUME Inv, NEW d \in Calls, req[d] \in Requests,
         pc[d] = "bet" => req[d].op = "place",
         pc[d] = "refer" => req[d].op \in {"settle", "cancel"}
  PROVE  Wanted(d) \in SUBSET [row : LockedRows, mode : Modes]
<1>0. /\ bets \in [Calls -> Bet \cup {None}] /\ snapshots \subseteq Snapshot
      /\ Current(d)
  BY InvParts, TableTypes
<1>1. /\ \A ids : ids \subseteq Users =>
           /\ ForUpdate("user", ids) \subseteq [row : LockedRows, mode : Modes]
           /\ KeyShare("user", ids) \subseteq [row : LockedRows, mode : Modes]
      /\ \A ids : ids \subseteq Outcomes =>
           ForUpdate("outcome", ids) \subseteq [row : LockedRows, mode : Modes]
      /\ \A ids : ids \subseteq Events =>
           ForUpdate("event", ids) \subseteq [row : LockedRows, mode : Modes]
      /\ \A ids : ids \subseteq Sessions =>
           KeyShare("session", ids) \subseteq [row : LockedRows, mode : Modes]
      /\ \A ids : ids \subseteq Calls =>
           ForUpdate("bet", ids) \subseteq [row : LockedRows, mode : Modes]
      /\ \A ids : ids \subseteq Outcomes \X Times =>
           /\ ForUpdate("snapshot", ids) \subseteq [row : LockedRows, mode : Modes]
           /\ KeyShare("snapshot", ids) \subseteq [row : LockedRows, mode : Modes]
  BY DEF LockedRows, ForUpdate, KeyShare, Modes
<1>2. \A s \in Snapshot : SnapshotId(s) \in Outcomes \X Times
  BY DEF Snapshot, SnapshotId
<1>3. \A os, b : b \in PendingOn(bets, os) => /\ b \in Calls /\ bets[b].user \in Users
                                             /\ bets[b].snap \in Snapshot
  BY <1>0 DEF PendingOn, Bet
<1>4. CASE pc[d] = "bet"
  <2>1. snap[d] \in Snapshot /\ {req[d].session} \ {None} \subseteq Sessions
    BY <1>0, <1>4, RequestTypes DEF Current, PlaceCurrent, IsNewest
  <2>2. {SnapshotId(snap[d])} \subseteq Outcomes \X Times
    BY <1>2, <2>1
  <2> QED
    BY <1>1, <1>4, <2>1, <2>2, WantedAt
<1>5. CASE pc[d] = "rows"
  <2>1. Due(d) \subseteq Calls /\ \A b \in Due(d) : bets[b].snap \in Snapshot
    BY <1>3 DEF Due
  <2>2. {SnapshotId(bets[b].snap) : b \in Due(d)} \subseteq Outcomes \X Times
    BY <1>2, <2>1
  <2> QED
    BY <1>1, <1>5, <2>1, <2>2, WantedAt
<1>6. CASE pc[d] = "refer"
  <2>1. \A b \in rows[d] : bets[b].user \in Users
    BY <1>0, <1>3, <1>6 DEF Current, SettleCurrent, CancelCurrent
  <2> DEFINE users == {bets[b].user : b \in rows[d]}
  <2>2. users \subseteq Users
    BY <2>1
  <2>3. Wanted(d) = KeyShare("user", users)
    BY <1>6, WantedAt
  <2> HIDE DEF users
  <2> QED
    BY <1>1, <2>2, <2>3
<1>7. CASE pc[d] \in {"user", "outcome", "outcomes", "event"}
  <2>1. FirstUnlocked(d) \subseteq Outcomes
    BY DEF FirstUnlocked, Unlocked, OutcomesOf
  <2>2. \/ \E ids : ids \subseteq Users /\ Wanted(d) = ForUpdate("user", ids)
        \/ \E ids : ids \subseteq Outcomes /\ Wanted(d) = ForUpdate("outcome", ids)
        \/ \E ids : ids \subseteq Events /\ Wanted(d) = ForUpdate("event", ids)
    <3>1. CASE pc[d] = "user"
      BY <3>1, WantedAt
    <3>2. CASE pc[d] = "outcome"
      BY <3>2, WantedAt
    <3>3. CASE pc[d] = "outcomes"
      BY <2>1, <3>3, WantedAt
    <3>4. CASE pc[d] = "event"
      BY <3>4, WantedAt
    <3> QED
      BY <1>7, <3>1, <3>2, <3>3, <3>4
  <2> QED
    BY <1>1, <2>2
<1> QED
  BY <1>4, <1>5, <1>6, <1>7 DEF Wanted

LEMMA AnswerTypes ==
  ASSUME TypeOK, NEW d \in Calls, NEW kind \in Answers, NEW b \in Calls \cup {None},
         Answer(d, kind, b)
  PROVE  CallTypes'
<1>1. CallTypes
  BY TypeParts
<1>2. "done" \in Labels
  BY DEF Labels
<1> QED
  BY <1>1, <1>2 DEF Answer, CallTypes

LEMMA StatementTypes ==
  ASSUME Inv, NEW d \in Calls, NEW label \in Labels, Statement(d, label),
         pc[d] # "idle",
         pc[d] = "bet" => req[d].op = "place",
         pc[d] = "refer" => req[d].op \in {"settle", "cancel"},
         snap' \in [Calls -> Snapshot \cup {None}], rows' \in [Calls -> SUBSET Calls]
  PROVE  CallTypes'
<1>1. TypeOK /\ CallTypes /\ req[d] \in Requests
  BY InvParts, TypeParts DEF Current, CallTypes
<1>2. Wanted(d) \in SUBSET [row : LockedRows, mode : Modes]
  BY <1>1, WantedTypes
<1>3. held[d] \cup Wanted(d) \in SUBSET [row : LockedRows, mode : Modes]
  BY <1>1, <1>2 DEF CallTypes
<1> QED
  BY <1>1, <1>3 DEF Statement, CallTypes

LEMMA ProceedTypes ==
  ASSUME Inv, NEW d \in Calls, NEW label \in Labels, Proceed(d, label),
         pc[d] # "idle",
         pc[d] = "bet" => req[d].op = "place",
         pc[d] = "refer" => req[d].op \in {"settle", "cancel"}
  PROVE  CallTypes'
<1>1. snap' \in [Calls -> Snapshot \cup {None}] /\ rows' \in [Calls -> SUBSET Calls]
  BY DEF Proceed, Inv, TypeOK
<1> QED
  BY <1>1, StatementTypes DEF Proceed

LEMMA PlaceTypes ==
  ASSUME Inv, NEW d \in Calls, Place(d)
  PROVE  CallTypes'
<1>0. TypeOK
  BY InvParts
<1>1. /\ {"placed", "replayed", "rejected", "error"} \subseteq Answers
      /\ {"key", "outcome", "event", "price", "session", "bet", "payment", "commit"} \subseteq Labels
  BY DEF Answers, Labels
<1>2. CASE PlaceCheckKey(d)
  <2>1. \A p \in payments : p.bet \in Calls \cup {None}
    BY <1>0, TableTypes DEF Payment
  <2> QED
    BY <1>0, <1>1, <1>2, <2>1, ProceedTypes, AnswerTypes DEF PlaceCheckKey, At
<1>3. CASE PlaceReadPrice(d)
  <2>1. ASSUME NEW s \in snapshots, snap' = [snap EXCEPT ![d] = s], UNCHANGED rows,
               Statement(d, IF req[d].session = None THEN "bet" ELSE "session")
        PROVE  CallTypes'
    <3>1. snap' \in [Calls -> Snapshot \cup {None}] /\ rows' \in [Calls -> SUBSET Calls]
      BY <1>0, <2>1, TableTypes DEF TypeOK
    <3>2. (IF req[d].session = None THEN "bet" ELSE "session") \in Labels /\ pc[d] = "price"
      BY <1>1, <1>3 DEF PlaceReadPrice, At
    <3> QED
      BY <2>1, <3>1, <3>2, StatementTypes
  <2> QED
    BY <1>0, <1>1, <1>3, <2>1, AnswerTypes DEF PlaceReadPrice, IsNewest, Reject, Return
<1>4. CASE PlaceLockUser(d) \/ PlaceLockOutcome(d) \/ PlaceLockEvent(d)
  BY <1>0, <1>1, <1>4, ProceedTypes, AnswerTypes
     DEF PlaceLockUser, PlaceLockOutcome, PlaceLockEvent, Reject, Return, At
<1>5. CASE PlaceCheckSession(d) \/ PlaceInsertBet(d) \/ PlaceInsertPayment(d)
  BY <1>0, <1>1, <1>5, ProceedTypes, AnswerTypes
     DEF PlaceCheckSession, PlaceInsertBet, PlaceInsertPayment, InsertPayments, Reject, Return, At
<1>6. CASE PlaceCommit(d)
  BY <1>0, <1>1, <1>6, AnswerTypes DEF PlaceCommit, Committed
<1> QED
  BY <1>2, <1>3, <1>4, <1>5, <1>6 DEF Place

LEMMA SettleTypes ==
  ASSUME Inv, NEW d \in Calls, Settle(d)
  PROVE  CallTypes'
<1>0. TypeOK
  BY InvParts
<1>1. /\ {"settled", "already", "rejected", "error"} \subseteq Answers
      /\ {"event", "rows", "credit", "refer", "commit"} \subseteq Labels
  BY DEF Answers, Labels
<1>2. CASE SettleLockBets(d)
  <2>1. Due(d) \subseteq Calls
    BY <1>0, TableTypes DEF Due, PendingOn
  <2>2. snap' \in [Calls -> Snapshot \cup {None}] /\ rows' \in [Calls -> SUBSET Calls]
    BY <1>0, <1>2, <2>1 DEF SettleLockBets, TypeOK
  <2> QED
    BY <1>1, <1>2, <2>2, StatementTypes DEF SettleLockBets, At
<1>3. CASE SettleLockOutcome(d) \/ SettleLockEvent(d) \/ SettleInsertPayouts(d)
             \/ SettleReferPayouts(d)
  BY <1>0, <1>1, <1>3, ProceedTypes, AnswerTypes
     DEF SettleLockOutcome, SettleLockEvent, SettleInsertPayouts, SettleReferPayouts,
         InsertPayments, Reject, Return, At
<1>4. CASE SettleCommit(d)
  BY <1>0, <1>1, <1>4, AnswerTypes DEF SettleCommit, Committed
<1> QED
  BY <1>2, <1>3, <1>4 DEF Settle

LEMMA CancelTypes ==
  ASSUME Inv, NEW d \in Calls, Cancel(d)
  PROVE  CallTypes'
<1>0. TypeOK
  BY InvParts
<1>1. /\ {"cancelled", "already", "rejected", "error"} \subseteq Answers
      /\ {"outcomes", "event", "rows", "credit", "refer", "commit"} \subseteq Labels
  BY DEF Answers, Labels
<1>2. CASE CancelLockBets(d)
  <2>1. Due(d) \subseteq Calls
    BY <1>0, TableTypes DEF Due, PendingOn
  <2>2. snap' \in [Calls -> Snapshot \cup {None}] /\ rows' \in [Calls -> SUBSET Calls]
    BY <1>0, <1>2, <2>1 DEF CancelLockBets, TypeOK
  <2> QED
    BY <1>1, <1>2, <2>2, StatementTypes DEF CancelLockBets, At
<1>3. CASE CancelLockOutcome(d) \/ CancelLockEvent(d) \/ CancelInsertRefunds(d)
             \/ CancelReferRefunds(d)
  BY <1>0, <1>1, <1>3, ProceedTypes, AnswerTypes
     DEF CancelLockOutcome, CancelLockEvent, CancelInsertRefunds, CancelReferRefunds,
         InsertPayments, Reject, Return, At
<1>4. CASE CancelCommit(d)
  BY <1>0, <1>1, <1>4, AnswerTypes DEF CancelCommit, Committed
<1> QED
  BY <1>2, <1>3, <1>4 DEF Cancel

LEMMA OtherTypes ==
  ASSUME Inv, NEW d \in Calls,
         \/ \E r \in Requests : Start(d, r)
         \/ Fail(d) \/ Deadlocked(d) \/ DeadlockedOutside(d)
  PROVE  CallTypes'
<1>0. TypeOK /\ CallTypes
  BY InvParts, TypeParts
<1>1. {"rejected", "error"} \subseteq Answers /\ "done" \in Labels
  BY DEF Answers, Labels
<1>2. \A r : FirstLabel(r) \in {"user", "outcome", "event", "outcomes"}
               \/ r.op \notin {"place", "settle", "cancel"}
  <2>1. \A r : /\ r.op = "place"  => FirstLabel(r) = "user"
               /\ r.op = "settle" => FirstLabel(r) = "outcome"
               /\ r.op = "cancel" => FirstLabel(r) = IF OutcomesOf(r.event) = {} THEN "event"
                                                                                 ELSE "outcomes"
    BY DEF FirstLabel
  <2> QED
    BY <2>1
<1>3. \A r \in Requests : FirstLabel(r) \in Labels
  BY <1>2, RequestTypes DEF Labels
<1>4. ASSUME NEW r \in Requests, Start(d, r)
      PROVE  CallTypes'
  BY <1>0, <1>1, <1>3, <1>4 DEF Start, CallTypes
<1>5. ASSUME NEW kind \in {"error"}, Return(d, kind)
      PROVE  CallTypes'
  BY <1>0, <1>1, <1>5, AnswerTypes DEF Return
<1>6. CASE Fail(d)
  BY <1>5, <1>6 DEF Fail
<1>7. CASE Deadlocked(d) \/ DeadlockedOutside(d)
  <2>0. pc[d] \notin {"idle", "done"} /\ RunAgain(d)
    BY <1>7, DeadlockedIsActive
  <2>1. CASE Return(d, "error")
    BY <1>5, <2>1
  <2>2. CASE ~ Return(d, "error")
    <3>1. req[d] \in Requests
      BY <2>0, InsertedRequest
    <3>2. attempt[d] + 1 \in 1 .. MaxAttempts
      BY <1>0, <2>0, <2>2, BettingAssumption DEF RunAgain, CallTypes
    <3>3. /\ attempt' = [attempt EXCEPT ![d] = @ + 1]
          /\ pc' = [pc EXCEPT ![d] = FirstLabel(req[d])]
          /\ held' = [held EXCEPT ![d] = {}]
          /\ snap' = [snap EXCEPT ![d] = None]
          /\ rows' = [rows EXCEPT ![d] = {}]
          /\ req' = req /\ reply' = reply
      BY <2>0, <2>2 DEF RunAgain
    <3> QED
      BY <1>0, <1>3, <3>1, <3>2, <3>3 DEF CallTypes
  <2> QED
    BY <2>1, <2>2
<1> QED
  BY <1>4, <1>6, <1>7

-----------------------------------------------------------------------------
(* Around the calls. *)

\* While nobody moves and no bet changes, the keys that have been inserted can be
\* spoilt by a payment of somebody else only.
LEMMA KeysStay ==
  ASSUME Inv, NEW c \in Calls, UNCHANGED <<bets, calls>>,
         \A p \in payments' : p \in payments \/ ~ InFlight(c, p.key)
  PROVE  KeysCurrent(c)'
<1>1. ASSUME NEW x \in Calls
      PROVE  /\ pc[x] \in {"refer", "commit"} => PaymentsOf(x)' = PaymentsOf(x)
             /\ \A k : InFlight(x, k)' <=> InFlight(x, k)
  <2>1. pc' = pc /\ req' = req /\ snap' = snap /\ rows' = rows /\ bets' = bets
    BY DEF calls
  <2>2. pc[x] \in {"refer", "commit"} => req[x] \in Requests
    BY InsertedRequest
  <2>3. pc[x] \in {"refer", "commit"} => PaymentsOf(x)' = PaymentsOf(x)
    BY <2>1, <2>2, PaymentsStay
  <2> QED
    BY <2>1, <2>3 DEF InFlight
<1> SUFFICES ASSUME pc'[c] \in {"refer", "commit"}
             PROVE  W!Insertable(PaymentsOf(c))' /\ SameKeyInFlight(c)' = {}
  BY DEF KeysCurrent
<1>2. pc[c] \in {"refer", "commit"} /\ PaymentsOf(c)' = PaymentsOf(c)
  BY <1>1 DEF calls
<1>3. W!Insertable(PaymentsOf(c)) /\ SameKeyInFlight(c) = {}
  BY <1>2, InvParts DEF KeysCurrent
<1>4. W!Insertable(PaymentsOf(c))'
  <2>1. \A p \in PaymentsOf(c) : InFlight(c, p.key)
    BY <1>2 DEF InFlight
  <2> QED
    BY <1>2, <1>3, <2>1 DEF W!Insertable
<1>5. ASSUME NEW x \in Calls \ {c}, NEW p \in PaymentsOf(c)
      PROVE  ~ InFlight(x, p.key)'
  BY <1>1, <1>3, NotInFlight
<1> QED
  BY <1>2, <1>4, <1>5 DEF SameKeyInFlight

LEMMA StutterKeeps ==
  ASSUME Inv, UNCHANGED <<tables, calls>>
  PROVE  [W!Next]_W!tables /\ WorkIsCurrent'
<1>0. Exclusive(held) /\ \A c \in Calls : Current(c)
  BY InvParts
<1>1. ASSUME NEW c \in Calls
      PROVE  Current(c)'
  BY <1>0, Undisturbed DEF calls
<1>2. ASSUME NEW c \in Calls
      PROVE  KeysCurrent(c)'
  BY KeysStay DEF tables
<1>3. Exclusive(held)'
  BY <1>0 DEF calls
<1>4. UNCHANGED W!tables
  BY DEF tables, W!tables
<1> QED
  BY <1>1, <1>2, <1>3, <1>4 DEF WorkIsCurrent, Current

\* Prices, purchases, sessions, matches and the clock.
Outside == (\E arrived \in SUBSET Snapshot : FeedSnapshots(arrived)) \/ Around

LEMMA EnvironmentKeeps ==
  ASSUME Inv, Outside
  PROVE  /\ [W!Next]_W!tables /\ WorkIsCurrent'
         /\ UNCHANGED calls /\ endedSessions' \subseteq Sessions /\ now' \in Times
<1>0. /\ TypeOK /\ Exclusive(held) /\ \A c \in Calls : Current(c)
      /\ endedSessions \subseteq Sessions /\ now \in Times
  BY InvParts DEF TypeOK
<1>1. ASSUME UNCHANGED <<tables, calls>>
      PROVE  [W!Next]_W!tables /\ WorkIsCurrent'
  BY <1>1, StutterKeeps
<1>2. ASSUME NEW arrived \in SUBSET Snapshot, FeedSnapshots(arrived)
      PROVE  /\ W!Next /\ WorkIsCurrent'
             /\ UNCHANGED calls /\ endedSessions' = endedSessions /\ now' = now
  <2>1. /\ UNCHANGED calls /\ endedSessions' = endedSessions /\ now' = now
        /\ UNCHANGED <<eventStatus, outcomeStatus, bets, payments>>
        /\ snapshots' = snapshots \cup arrived
    BY <1>2 DEF FeedSnapshots, W!Feed
  <2>2. W!Next
    BY <1>2 DEF FeedSnapshots, W!Next, W!Snapshot, Snapshot
  <2>3. ASSUME NEW c \in Calls, NEW o, Has(c, "outcome", o), NEW s \in arrived
        PROVE  s.outcome # o
    <3> SUFFICES ASSUME s.outcome = o
                 PROVE  FALSE
      OBVIOUS
    <3>1. [row |-> <<"outcome", o>>, mode |-> "key_share"]
             \in KeyShare("outcome", {x.outcome : x \in arrived})
      BY DEF KeyShare
    <3>2. \A m \in held[c] : ~ Conflict([row |-> <<"outcome", o>>, mode |-> "key_share"], m)
      BY <1>2, <3>1 DEF FeedSnapshots, Unheld
    <3> QED
      BY <2>3, <3>2 DEF Has, Conflict
  <2>4. ASSUME NEW c \in Calls
        PROVE  Current(c)'
    <3>1. Current(c) /\ UNCHANGED <<req, pc, held, snap, rows>>
      BY <1>0, <2>1 DEF calls
    <3>2. pc[c] \in {"session", "bet", "payment", "commit"} /\ req[c].op = "place"
            => IsNewest(snap[c], snapshots', req[c].outcome)
      BY <2>1, <2>3, <3>1 DEF Current, PlaceCurrent, IsNewest
    <3>3. PlaceCurrent(c)'
      BY <2>1, <3>1, <3>2 DEF Current, PlaceCurrent, Has
    <3>4. SettleCurrent(c)'
      BY <2>1, <3>1 DEF Current, SettleCurrent, Has
    <3>5. CancelCurrent(c)'
      BY <2>1, <3>1 DEF Current, CancelCurrent, Has
    <3> QED
      BY <2>1, <3>1, <3>3, <3>4, <3>5 DEF Current
  <2>5. \A c \in Calls : KeysCurrent(c)'
    BY <2>1, KeysStay
  <2> QED
    BY <1>0, <2>1, <2>2, <2>4, <2>5 DEF WorkIsCurrent, Current, calls
<1>3. ASSUME NEW e \in Events, EventAdvances(e)
      PROVE  /\ W!Next /\ WorkIsCurrent'
             /\ UNCHANGED calls /\ endedSessions' = endedSessions /\ now' = now
  <2>1. /\ UNCHANGED calls /\ endedSessions' = endedSessions /\ now' = now
        /\ UNCHANGED <<outcomeStatus, snapshots, bets, payments>>
        /\ \A x \in Events \ {e} : eventStatus'[x] = eventStatus[x]
    BY <1>0, <1>3, TableTypes DEF EventAdvances, W!Advance
  <2>2. W!Next
    BY <1>3 DEF EventAdvances, W!Next
  <2>3. ASSUME NEW c \in Calls, NEW x, Has(c, "event", x)
        PROVE  x # e
    <3> SUFFICES ASSUME x = e
                 PROVE  FALSE
      OBVIOUS
    <3>1. [row |-> <<"event", e>>, mode |-> "no_key_update"] \in NoKeyUpdate("event", {e})
      BY DEF NoKeyUpdate
    <3>2. \A m \in held[c] : ~ Conflict([row |-> <<"event", e>>, mode |-> "no_key_update"], m)
      BY <1>3, <3>1 DEF EventAdvances, Unheld
    <3> QED
      BY <2>3, <3>2 DEF Has, Conflict
  <2>4. ASSUME NEW c \in Calls
        PROVE  Current(c)'
    <3>1. Current(c) /\ UNCHANGED <<req, pc, held, snap, rows>>
      BY <1>0, <2>1 DEF calls
    <3>2. PlaceCurrent(c)'
      BY <2>1, <2>3, <3>1, TablesAssumption DEF Current, PlaceCurrent, Has
    <3>3. SettleCurrent(c)'
      BY <2>1, <2>3, <3>1, TablesAssumption DEF Current, SettleCurrent, Has
    <3>4. CancelCurrent(c)'
      BY <2>1, <2>3, <3>1 DEF Current, CancelCurrent, Has
    <3> QED
      BY <2>1, <3>1, <3>2, <3>3, <3>4 DEF Current
  <2>5. \A c \in Calls : KeysCurrent(c)'
    BY <2>1, KeysStay
  <2> QED
    BY <1>0, <2>1, <2>2, <2>4, <2>5 DEF WorkIsCurrent, Current, calls
<1>4. ASSUME NEW p \in Purchases, PurchaseCommits(p[1], p[2])
      PROVE  /\ W!Next /\ WorkIsCurrent'
             /\ UNCHANGED calls /\ endedSessions' = endedSessions /\ now' = now
  <2>1. /\ UNCHANGED calls /\ endedSessions' = endedSessions /\ now' = now
        /\ UNCHANGED <<eventStatus, outcomeStatus, snapshots, bets>>
        /\ payments' = payments \cup {W!Purchase(p[1], p[2])}
    BY <1>4 DEF PurchaseCommits, W!Buy
  <2>2. W!Next
    BY <1>4 DEF PurchaseCommits, W!Next
  <2>3. ASSUME NEW c \in Calls
        PROVE  Current(c)'
    <3>1. Current(c) /\ UNCHANGED <<req, pc, held, snap, rows>>
      BY <1>0, <2>1 DEF calls
    <3> QED
      BY <2>1, <3>1 DEF Current, PlaceCurrent, SettleCurrent, CancelCurrent, Has
  <2>4. ASSUME NEW c \in Calls
        PROVE  KeysCurrent(c)'
    <3>1. W!Purchase(p[1], p[2]).key = p[2] /\ ~ InFlight(c, p[2])
      BY <1>4 DEF W!Purchase, PurchaseCommits
    <3>2. \A q \in payments' : q \in payments \/ ~ InFlight(c, q.key)
      BY <2>1, <3>1
    <3> QED
      BY <2>1, <3>2, KeysStay
  <2> QED
    BY <1>0, <2>1, <2>2, <2>3, <2>4 DEF WorkIsCurrent, Current, calls
<1> QED
  BY <1>0, <1>1, <1>2, <1>3, <1>4
     DEF Outside, Around, EndSession, EndSessionsBulk, Tick

-----------------------------------------------------------------------------
(* The theorems. *)

LEMMA InitKeeps == Init => Inv /\ W!Init
<1> SUFFICES ASSUME Init
             PROVE  Inv /\ W!Init
  OBVIOUS
<1>1. W!TypeOK
  BY TablesAssumption, SeedAssumption DEF Init, W!Init, W!TypeOK, W!EventStatus,
     W!OutcomeStatus, W!TakesBets, W!Snapshot, Snapshot
<1>2. TypeOK
  BY <1>1, BettingAssumption
     DEF Init, TypeOK, Labels, Answers, Silence
<1>3. WorkIsCurrent
  BY DEF Init, W!Init, WorkIsCurrent, Exclusive, PlaceCurrent, SettleCurrent, CancelCurrent,
     KeysCurrent
<1> QED
  BY <1>2, <1>3 DEF Inv, Init

\* A step that writes no table is a stuttering step of Wagers.
LEMMA QuietStep ==
  ASSUME Inv, NEW d \in Calls, Quiet(d), CallTypes', UNCHANGED <<endedSessions, now>>
  PROVE  Inv' /\ [W!Next]_W!tables
<1>1. UNCHANGED W!tables
  BY DEF Quiet, tables, W!tables
<1>2. W!TypeOK'
  BY <1>1, KeepsTypes, InvParts, TypeParts
<1>3. TypeOK'
  BY <1>2, InvParts, TypeParts
<1> QED
  BY <1>1, <1>3, QuietKeeps DEF Inv

LEMMA CommitStep ==
  ASSUME Inv, W!Next, WorkIsCurrent', CallTypes', UNCHANGED <<endedSessions, now>>
  PROVE  Inv' /\ [W!Next]_W!tables
<1>1. W!TypeOK'
  BY KeepsTypes, InvParts, TypeParts
<1> QED
  BY <1>1, InvParts, TypeParts DEF Inv

\* Every step keeps the invariant and is a step of Wagers or a stuttering step.
LEMMA NextKeeps == Inv /\ [Next]_vars => Inv' /\ [W!Next]_W!tables
<1> SUFFICES ASSUME Inv, [Next]_vars
             PROVE  Inv' /\ [W!Next]_W!tables
  OBVIOUS
<1>1. ASSUME NEW d \in Calls, NEW r \in Requests, Start(d, r)
      PROVE  Inv' /\ [W!Next]_W!tables
  <2>1. UNCHANGED <<endedSessions, now>>
    BY <1>1 DEF Start, database
  <2> QED
    BY <1>1, <2>1, StartIsQuiet, OtherTypes, QuietStep
<1>2. ASSUME NEW d \in Calls, Fail(d) \/ Deadlocked(d) \/ DeadlockedOutside(d)
      PROVE  Inv' /\ [W!Next]_W!tables
  <2>1. UNCHANGED <<endedSessions, now>>
    BY <1>2 DEF Fail, Deadlocked, DeadlockedOutside, RunAgain, Return, database
  <2> QED
    BY <1>2, <2>1, FailIsQuiet, RetryIsQuiet, OtherTypes, QuietStep
<1>3. ASSUME NEW d \in Calls, Place(d)
      PROVE  Inv' /\ [W!Next]_W!tables
  <2>1. UNCHANGED <<endedSessions, now>>
    BY <1>3 DEF Place, PlaceLockUser, PlaceCheckKey, PlaceLockOutcome, PlaceLockEvent,
       PlaceReadPrice, PlaceCheckSession, PlaceInsertBet, PlaceInsertPayment, PlaceCommit,
       InsertPayments, Proceed, Statement, Reject, Return, database
  <2>2. CASE PlaceCommit(d)
    BY <1>3, <2>1, <2>2, PlaceCommits, PlaceTypes, CommitStep
  <2>3. CASE ~ PlaceCommit(d)
    BY <1>3, <2>1, <2>3, PlaceIsQuiet, PlaceTypes, QuietStep DEF Place
  <2> QED
    BY <2>2, <2>3
<1>4. ASSUME NEW d \in Calls, Settle(d)
      PROVE  Inv' /\ [W!Next]_W!tables
  <2>1. UNCHANGED <<endedSessions, now>>
    BY <1>4 DEF Settle, SettleLockOutcome, SettleLockEvent, SettleLockBets,
       SettleInsertPayouts, SettleReferPayouts, SettleCommit, InsertPayments, Proceed, Statement, Reject, Return, database
  <2>2. CASE SettleCommit(d)
    BY <1>4, <2>1, <2>2, SettleCommits, SettleTypes, CommitStep
  <2>3. CASE ~ SettleCommit(d)
    BY <1>4, <2>1, <2>3, SettleIsQuiet, SettleTypes, QuietStep DEF Settle
  <2> QED
    BY <2>2, <2>3
<1>5. ASSUME NEW d \in Calls, Cancel(d)
      PROVE  Inv' /\ [W!Next]_W!tables
  <2>1. UNCHANGED <<endedSessions, now>>
    BY <1>5 DEF Cancel, CancelLockOutcome, CancelLockEvent, CancelLockBets,
       CancelInsertRefunds, CancelReferRefunds, CancelCommit, InsertPayments, Proceed, Statement, Reject, Return, database
  <2>2. CASE CancelCommit(d)
    BY <1>5, <2>1, <2>2, CancelCommits, CancelTypes, CommitStep
  <2>3. CASE ~ CancelCommit(d)
    BY <1>5, <2>1, <2>3, CancelIsQuiet, CancelTypes, QuietStep DEF Cancel
  <2> QED
    BY <2>2, <2>3
<1>6. CASE Outside
  <2>1. /\ [W!Next]_W!tables /\ WorkIsCurrent'
        /\ UNCHANGED calls /\ endedSessions' \subseteq Sessions /\ now' \in Times
    BY <1>6, EnvironmentKeeps
  <2>2. CallTypes'
    BY <2>1, InvParts, TypeParts DEF calls, CallTypes
  <2>3. W!TypeOK'
    BY <2>1, KeepsTypes, InvParts, TypeParts
  <2> QED
    BY <2>1, <2>2, <2>3, TypeParts DEF Inv
<1>7. CASE UNCHANGED vars
  <2>1. UNCHANGED <<tables, calls>> /\ UNCHANGED <<endedSessions, now>>
    BY <1>7 DEF vars, database, tables
  <2>2. [W!Next]_W!tables /\ WorkIsCurrent'
    BY <2>1, StutterKeeps
  <2>3. CallTypes'
    BY <2>1, InvParts, TypeParts DEF calls, CallTypes
  <2>4. W!TypeOK'
    BY <2>2, KeepsTypes, InvParts, TypeParts
  <2> QED
    BY <2>1, <2>2, <2>3, <2>4, InvParts, TypeParts DEF Inv
<1> QED
  BY <1>1, <1>2, <1>3, <1>4, <1>5, <1>6, <1>7 DEF Next, Outside, Step, Finished

LEMMA InvHolds == Spec => []Inv
<1>1. Init => Inv
  BY InitKeeps
<1>2. Inv /\ [Next]_vars => Inv'
  BY NextKeeps
<1> QED
  BY <1>1, <1>2, PTL DEF Spec

\* Every variable keeps its type in every instance.
THEOREM BettingTypes == Spec => []TypeOK
<1>1. Inv => TypeOK
  BY DEF Inv
<1> QED
  BY <1>1, InvHolds, PTL

\* What place_bet, settle_outcome and cancel_event have read under their locks
\* still stands when they commit, and no two transactions hold conflicting locks.
THEOREM ReadsStayCurrent == Spec => []WorkIsCurrent
<1>1. Inv => WorkIsCurrent
  BY DEF Inv
<1> QED
  BY <1>1, InvHolds, PTL

\* Whatever the interleaving, the three operations of betting.py change the
\* tables as if each of them were one indivisible step.
THEOREM BettingImplementsWagers == Spec => ActsAtomically
<1>1. Init => W!Init
  BY InitKeeps
<1>2. Inv /\ [Next]_vars => [W!Next]_W!tables
  BY NextKeeps
<1> QED
  BY <1>1, <1>2, InvHolds, PTL DEF Spec, ActsAtomically, W!Spec

\* Every bet of betting.py is charged once, paid out once if it won and
\* refunded once if it was voided.
THEOREM MoneyBalances == Spec => []LedgerBalanced
<1>1. Init => LedgerBalanced
  BY DEF Init, W!Init, LedgerBalanced, W!LedgerBalanced
<1>2. Inv /\ LedgerBalanced /\ [Next]_vars => LedgerBalanced'
  BY NextKeeps, KeepsLedger, InvParts, TypeParts DEF LedgerBalanced
<1> QED
  BY <1>1, <1>2, InvHolds, PTL DEF Spec

\* No bet of betting.py is pending on a market that is settled or cancelled.
THEOREM NoBetLeftBehind == Spec => []BetsFollowMarket
<1>1. Init => BetsFollowMarket
  BY DEF Init, W!Init, BetsFollowMarket, W!BetsFollowMarket
<1>2. Inv /\ BetsFollowMarket /\ [Next]_vars => BetsFollowMarket'
  BY NextKeeps, KeepsMarket, InvParts, TypeParts DEF BetsFollowMarket
<1> QED
  BY <1>1, <1>2, InvHolds, PTL DEF Spec
=============================================================================
