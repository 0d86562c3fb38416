---------------------------- MODULE WagersProofs ----------------------------
(***************************************************************************)
(* What Wagers keeps in every instance: the types, and on top of them      *)
(* OnePaymentPerKey, LedgerBalanced and BetsFollowMarket.                  *)
(***************************************************************************)
EXTENDS Wagers, TLAPS

-----------------------------------------------------------------------------
(* The rounding of Money.tla, for every amount. *)

\* Decimal.quantize returns a whole number no further than half a unit away.
LEMMA HalfEvenNearest ==
  ASSUME NEW n \in Int, NEW d \in Nat \ {0}
  PROVE  /\ HalfEven(n, d) \in Int
         /\ 2 * n <= 2 * d * HalfEven(n, d) + d
         /\ 2 * d * HalfEven(n, d) <= 2 * n + d
<1> DEFINE q == n \div d
           r == n % d
<1>1. /\ q \in Int /\ r \in 0 .. d - 1
      /\ n = d * q + r
  OBVIOUS
<1>2. CASE HalfEven(n, d) = q
  <2>1. 2 * r <= d
    BY <1>1, <1>2 DEF HalfEven
  <2> QED
    BY <1>1, <1>2, <2>1
<1>3. CASE HalfEven(n, d) = q + 1
  <2>1. 2 * r >= d
    BY <1>1, <1>3 DEF HalfEven
  <2>2. d * (q + 1) = d * q + d
    BY <1>1
  <2> QED
    BY <1>1, <1>3, <2>1, <2>2
<1> QED
  BY <1>1, <1>2, <1>3 DEF HalfEven

\* At a price above 1 (ck_price_gt_one) a winner gets at least the stake back,
\* so a payout never violates ck_payment_amount_pos.
LEMMA PayoutCoversStake ==
  ASSUME NEW cents \in Nat, NEW price \in Nat, price > 1000
  PROVE  Payout(cents, price) \in Nat /\ Payout(cents, price) >= cents
<1> DEFINE n == cents * price
           q == n \div 1000
<1>1. n \in Nat /\ n >= 1000 * cents
  <2>1. cents * (price - 1000) >= 0 /\ cents * price \in Nat
    OBVIOUS
  <2>2. cents * price = 1000 * cents + cents * (price - 1000)
    OBVIOUS
  <2> QED
    BY <2>1, <2>2
<1>2. q \in Int /\ q >= cents
  <2> HIDE DEF n
  <2> QED
    BY <1>1
<1>3. Payout(cents, price) \in {q, q + 1}
  BY DEF Payout, HalfEven
<1> QED
  BY <1>2, <1>3

-----------------------------------------------------------------------------
(* The tables. *)

USE DEF EventStatus, OutcomeStatus, BetStatus, TakesBets

\* The payments made for a bet are of its type: a charge, a refund, and a
\* payout as long as the column holds it.
LEMMA PaymentTypes ==
  ASSUME NEW b \in Calls, NEW bet \in Bet
  PROVE  /\ \A k \in Keys : Charge(b, bet, k) \in Payment
         /\ RefundOf(b, bet) \in Payment
         /\ PayoutOf(b, bet).amount <= MaxMoney => PayoutOf(b, bet) \in Payment
<1>1. /\ bet.stake \in 1 .. MaxMoney /\ bet.user \in Users /\ bet.snap.price \in Prices
  BY DEF Bet, Snapshot
<1>2. bet.snap.price \in Nat /\ bet.snap.price > 1000 /\ MaxMoney \in Nat
  BY <1>1, TablesAssumption
<1>3. /\ \A k \in Keys : k \in PaymentKey
      /\ PayoutKey(b) \in PaymentKey /\ VoidKey(b) \in PaymentKey
  BY DEF PaymentKey, PayoutKey, VoidKey
<1>4. (\A k \in Keys : Charge(b, bet, k) \in Payment) /\ RefundOf(b, bet) \in Payment
  BY <1>1, <1>3 DEF Payment, Charge, RefundOf
<1>5. Payout(bet.stake, bet.snap.price) \in Nat
      /\ Payout(bet.stake, bet.snap.price) >= bet.stake
  BY <1>1, <1>2, PayoutCoversStake
<1>6. PayoutOf(b, bet).amount <= MaxMoney => PayoutOf(b, bet) \in Payment
  BY <1>1, <1>2, <1>3, <1>5 DEF Payment, PayoutOf
<1> QED
  BY <1>4, <1>6

\* So is the payment for a subscription.
LEMMA PurchaseType ==
  ASSUME NEW p \in Purchases
  PROVE  Purchase(p[1], p[2]) \in Payment /\ Purchase(p[1], p[2]).bet \notin Calls
<1>1. p[1] \in Users /\ p[2] \in PaymentKey /\ Fee \in 1 .. MaxMoney
  BY PurchasesAssumption DEF PaymentKey
<1> QED
  BY <1>1, TablesAssumption DEF Purchase, Payment

\* A pending bet is a bet.
LEMMA PendingIsBet ==
  ASSUME TypeOK, NEW os, NEW b \in PendingOn(bets, os)
  PROVE  /\ b \in Calls /\ bets[b] \in Bet /\ bets[b] # None
         /\ bets[b].status = "pending" /\ bets[b].snap.outcome \in os
BY DEF TypeOK, PendingOn

\* Resolving bets keeps everything about them but their status.
LEMMA ResolvedBets ==
  ASSUME TypeOK, NEW bs \in SUBSET Calls, NEW status \in BetStatus,
         \A b \in bs : bets[b] \in Bet
  PROVE  /\ Resolved(bs, status) \in [Calls -> Bet \cup {None}]
         /\ \A b \in Calls \ bs : Resolved(bs, status)[b] = bets[b]
         /\ \A b \in bs :
              /\ Resolved(bs, status)[b] \in Bet
              /\ Resolved(bs, status)[b].status = status
              /\ Resolved(bs, status)[b].user = bets[b].user
              /\ Resolved(bs, status)[b].snap = bets[b].snap
              /\ Resolved(bs, status)[b].stake = bets[b].stake
<1>1. ASSUME NEW b \in bs
      PROVE  /\ [bets[b] EXCEPT !.status = status] \in Bet
             /\ [bets[b] EXCEPT !.status = status].status = status
             /\ [bets[b] EXCEPT !.status = status].user = bets[b].user
             /\ [bets[b] EXCEPT !.status = status].snap = bets[b].snap
             /\ [bets[b] EXCEPT !.status = status].stake = bets[b].stake
  BY DEF Bet
<1> QED
  BY <1>1 DEF Resolved, TypeOK
-----------------------------------------------------------------------------
LEMMA InitTypes == Init => TypeOK
BY TablesAssumption, SeedAssumption DEF Init, TypeOK

LEMMA NextTypes == TypeOK /\ [Next]_tables => TypeOK'
<1> SUFFICES ASSUME TypeOK, [Next]_tables
             PROVE  TypeOK'
  OBVIOUS
<1>1. ASSUME NEW b \in Calls, NEW bet \in NewBet, NEW k \in Keys, Place(b, bet, k)
      PROVE  TypeOK'
  <2>1. bet \in Bet
    BY DEF NewBet, Bet, TypeOK
  <2>2. Charge(b, bet, k) \in Payment
    BY <2>1, PaymentTypes
  <2> QED
    BY <1>1, <2>1, <2>2 DEF Place, TypeOK
<1>2. ASSUME NEW o \in Outcomes, NEW won \in BOOLEAN, Settle(o, won)
      PROVE  TypeOK'
  <2> DEFINE due == PendingOn(bets, {o})
             pays == IF won THEN {PayoutOf(b, bets[b]) : b \in due} ELSE {}
  <2>1. due \subseteq Calls /\ \A b \in due : bets[b] \in Bet
    BY PendingIsBet
  <2>2. bets' \in [Calls -> Bet \cup {None}]
    <3>1. bets' = Resolved(due, IF won THEN "won" ELSE "lost")
      BY <1>2 DEF Settle
    <3> QED
      BY <2>1, <3>1, ResolvedBets
  <2>3. pays \subseteq Payment
    <3>1. \A p \in pays : p.amount <= MaxMoney
      BY <1>2 DEF Settle, Insertable
    <3> QED
      BY <2>1, <3>1, PaymentTypes
  <2> QED
    BY <1>2, <2>2, <2>3 DEF Settle, TypeOK
<1>3. ASSUME NEW e \in Events, Cancel(e)
      PROVE  TypeOK'
  <2> DEFINE due == PendingOn(bets, OutcomesOf(e))
  <2>1. due \subseteq Calls /\ \A b \in due : bets[b] \in Bet
    BY PendingIsBet
  <2>2. bets' \in [Calls -> Bet \cup {None}]
    BY <1>3, <2>1, ResolvedBets DEF Cancel
  <2>3. {RefundOf(b, bets[b]) : b \in due} \subseteq Payment
    BY <2>1, PaymentTypes
  <2> QED
    BY <1>3, <2>2, <2>3 DEF Cancel, TypeOK
<1>4. ASSUME NEW e \in Events, Advance(e)
      PROVE  TypeOK'
  BY <1>4 DEF Advance, TypeOK
<1>5. ASSUME NEW arrived \in SUBSET Snapshot, Feed(arrived)
      PROVE  TypeOK'
  BY <1>5 DEF Feed, TypeOK
<1>6. ASSUME NEW p \in Purchases, Buy(p[1], p[2])
      PROVE  TypeOK'
  BY <1>6, PurchaseType DEF Buy, TypeOK
<1>7. CASE UNCHANGED tables
  BY <1>7 DEF tables, TypeOK
<1> QED
  BY <1>1, <1>2, <1>3, <1>4, <1>5, <1>6, <1>7 DEF Next

\* Every table keeps its type.
THEOREM WagersTypes == Spec => []TypeOK
BY InitTypes, NextTypes, PTL DEF Spec

-----------------------------------------------------------------------------
\* An INSERT of payments with keys of their own leaves every key on one payment.
LEMMA InsertKeepsKeys ==
  ASSUME OnePaymentPerKey, NEW pays, Insertable(pays),
         \A p, q \in pays : p.key = q.key => p = q,
         payments' = payments \cup pays
  PROVE  OnePaymentPerKey'
BY DEF OnePaymentPerKey, Insertable

LEMMA NextKeys == OnePaymentPerKey /\ [Next]_tables => OnePaymentPerKey'
<1> SUFFICES ASSUME OnePaymentPerKey, [Next]_tables
             PROVE  OnePaymentPerKey'
  OBVIOUS
<1>1. ASSUME NEW b \in Calls, NEW bet \in NewBet, NEW k \in Keys, Place(b, bet, k)
      PROVE  OnePaymentPerKey'
  BY <1>1, InsertKeepsKeys DEF Place
<1>2. ASSUME NEW o \in Outcomes, NEW won \in BOOLEAN, Settle(o, won)
      PROVE  OnePaymentPerKey'
  <2> DEFINE pays == IF won THEN {PayoutOf(b, bets[b]) : b \in PendingOn(bets, {o})} ELSE {}
  <2>1. \A p, q \in pays : p.key = q.key => p = q
    BY DEF PayoutOf, PayoutKey
  <2>2. Insertable(pays) /\ payments' = payments \cup pays
    BY <1>2 DEF Settle
  <2> HIDE DEF pays
  <2> QED
    BY <2>1, <2>2, InsertKeepsKeys
<1>3. ASSUME NEW e \in Events, Cancel(e)
      PROVE  OnePaymentPerKey'
  <2> DEFINE pays == {RefundOf(b, bets[b]) : b \in PendingOn(bets, OutcomesOf(e))}
  <2>1. \A p, q \in pays : p.key = q.key => p = q
    BY DEF RefundOf, VoidKey
  <2>2. Insertable(pays) /\ payments' = payments \cup pays
    BY <1>3 DEF Cancel
  <2> HIDE DEF pays
  <2> QED
    BY <2>1, <2>2, InsertKeepsKeys
<1>4. ASSUME NEW p \in Purchases, Buy(p[1], p[2])
      PROVE  OnePaymentPerKey'
  BY <1>4, InsertKeepsKeys DEF Buy
<1>5. ASSUME UNCHANGED payments
      PROVE  OnePaymentPerKey'
  BY <1>5 DEF OnePaymentPerKey
<1> QED
  BY <1>1, <1>2, <1>3, <1>4, <1>5 DEF Next, Advance, Feed, tables

\* Whoever inserts it - bets, settlements, cancellations and purchases share the
\* column - no key is ever on two payments.
THEOREM WagersKeys == Spec => []OnePaymentPerKey
<1>1. Init => OnePaymentPerKey
  BY DEF Init, OnePaymentPerKey
<1> QED
  BY <1>1, NextKeys, PTL DEF Spec

-----------------------------------------------------------------------------
\* What is paid for bet b, and that what it is owed names only b.
About(b) == {p \in payments : p.bet = b}

LEMMA OwedNames ==
  ASSUME NEW b \in Calls, NEW k \in Keys
  PROVE  \A p \in Owed(b, k) : p.bet = b
BY DEF Owed, Charge, PayoutOf, RefundOf

\* Resolving the bets of due and paying each of them once keeps the ledger.
LEMMA ResolutionBalances ==
  ASSUME TypeOK, LedgerBalanced,
         NEW due \in SUBSET Calls, NEW status \in {"won", "lost", "voided"}, NEW pays,
         \A b \in due : bets[b] \in Bet /\ bets[b] # None /\ bets[b].status = "pending",
         status = "won" => pays = {PayoutOf(b, bets[b]) : b \in due},
         status = "voided" => pays = {RefundOf(b, bets[b]) : b \in due},
         status = "lost" => pays = {},
         bets' = Resolved(due, status),
         payments' = payments \cup pays
  PROVE  LedgerBalanced'
<1> SUFFICES ASSUME NEW b \in Calls
             PROVE  IF bets'[b] = None THEN About(b)' = {}
                                       ELSE \E k \in Keys : About(b)' = Owed(b, k)'
  BY DEF LedgerBalanced, About
<1>1. CASE b \notin due
  <2>1. bets'[b] = bets[b]
    BY <1>1, ResolvedBets DEF BetStatus
  <2>2. \A p \in pays : p.bet # b
    BY <1>1 DEF PayoutOf, RefundOf
  <2>3. About(b)' = About(b)
    BY <2>2 DEF About
  <2>4. \A k \in Keys : Owed(b, k)' = Owed(b, k)
    BY <2>1 DEF Owed
  <2> QED
    BY <2>1, <2>3, <2>4 DEF LedgerBalanced, About
<1>2. CASE b \in due
  <2>1. /\ bets'[b] \in Bet
        /\ bets'[b].status = status
        /\ bets'[b].user = bets[b].user
        /\ bets'[b].snap = bets[b].snap
        /\ bets'[b].stake = bets[b].stake
    BY <1>2, ResolvedBets DEF BetStatus
  <2>2. PICK k \in Keys : About(b) = Owed(b, k)
    BY <1>2 DEF LedgerBalanced, About
  <2>3. About(b) = {Charge(b, bets[b], k)}
    BY <1>2, <2>2 DEF Owed
  <2>4. /\ Charge(b, bets'[b], k) = Charge(b, bets[b], k)
        /\ PayoutOf(b, bets'[b]) = PayoutOf(b, bets[b])
        /\ RefundOf(b, bets'[b]) = RefundOf(b, bets[b])
    BY <2>1 DEF Charge, PayoutOf, RefundOf
  <2>5. /\ status = "won" => {p \in pays : p.bet = b} = {PayoutOf(b, bets[b])}
        /\ status = "voided" => {p \in pays : p.bet = b} = {RefundOf(b, bets[b])}
        /\ status = "lost" => {p \in pays : p.bet = b} = {}
    BY <1>2 DEF PayoutOf, RefundOf
  <2>6. About(b)' = About(b) \cup {p \in pays : p.bet = b}
    BY DEF About
  <2>7. Owed(b, k)' = {Charge(b, bets[b], k)} \cup {p \in pays : p.bet = b}
    BY <2>1, <2>4, <2>5 DEF Owed
  <2>8. About(b)' = Owed(b, k)'
    BY <2>3, <2>6, <2>7
  <2>9. bets'[b] # None
    BY <2>1, NullAssumption
  <2> QED
    BY <2>8, <2>9
<1> QED
  BY <1>1, <1>2

LEMMA NextLedger == TypeOK /\ LedgerBalanced /\ [Next]_tables => LedgerBalanced'
<1> SUFFICES ASSUME TypeOK, LedgerBalanced, [Next]_tables
             PROVE  LedgerBalanced'
  OBVIOUS
<1>1. ASSUME NEW b \in Calls, NEW bet \in NewBet, NEW k \in Keys, Place(b, bet, k)
      PROVE  LedgerBalanced'
  <2> SUFFICES ASSUME NEW c \in Calls
               PROVE  IF bets'[c] = None THEN About(c)' = {}
                                         ELSE \E j \in Keys : About(c)' = Owed(c, j)'
    BY DEF LedgerBalanced, About
  <2>1. Charge(b, bet, k).bet = b
    BY DEF Charge
  <2>2. CASE c # b
    <3>1. bets'[c] = bets[c] /\ About(c)' = About(c)
      BY <1>1, <2>1, <2>2 DEF Place, TypeOK, About
    <3>2. \A j \in Keys : Owed(c, j)' = Owed(c, j)
      BY <3>1 DEF Owed
    <3> QED
      BY <3>1, <3>2 DEF LedgerBalanced, About
  <2>3. CASE c = b
    <3>1. bets'[b] = bet /\ bet \in Bet /\ bet # None
      BY <1>1, NullAssumption DEF Place, TypeOK, NewBet, Bet
    <3>2. About(b) = {}
      BY <1>1 DEF LedgerBalanced, About, Place
    <3>3. About(b)' = {Charge(b, bet, k)}
      BY <1>1, <2>1, <3>2 DEF Place, About
    <3>4. Owed(b, k)' = {Charge(b, bet, k)}
      BY <3>1 DEF Owed, NewBet
    <3> QED
      BY <2>3, <3>1, <3>3, <3>4
  <2> QED
    BY <2>2, <2>3
<1>2. ASSUME NEW o \in Outcomes, NEW won \in BOOLEAN, Settle(o, won)
      PROVE  LedgerBalanced'
  <2> DEFINE due == PendingOn(bets, {o})
             status == IF won THEN "won" ELSE "lost"
             pays == IF won THEN {PayoutOf(b, bets[b]) : b \in due} ELSE {}
  <2>1. /\ due \in SUBSET Calls
        /\ \A b \in due : bets[b] \in Bet /\ bets[b] # None /\ bets[b].status = "pending"
    BY PendingIsBet
  <2>2. /\ bets' = Resolved(due, status)
        /\ payments' = payments \cup pays
    BY <1>2 DEF Settle
  <2>3. /\ status \in {"won", "lost", "voided"}
        /\ status = "won" => pays = {PayoutOf(b, bets[b]) : b \in due}
        /\ status = "lost" => pays = {}
        /\ status # "voided"
    OBVIOUS
  <2> HIDE DEF due, status, pays
  <2> QED
    BY <2>1, <2>2, <2>3, ResolutionBalances
<1>3. ASSUME NEW e \in Events, Cancel(e)
      PROVE  LedgerBalanced'
  <2> DEFINE due == PendingOn(bets, OutcomesOf(e))
             pays == {RefundOf(b, bets[b]) : b \in due}
  <2>1. /\ due \in SUBSET Calls
        /\ \A b \in due : bets[b] \in Bet /\ bets[b] # None /\ bets[b].status = "pending"
    BY PendingIsBet
  <2>2. /\ bets' = Resolved(due, "voided")
        /\ payments' = payments \cup pays
    BY <1>3 DEF Cancel
  <2>3. pays = {RefundOf(b, bets[b]) : b \in due}
    OBVIOUS
  <2> HIDE DEF due, pays
  <2> QED
    BY <2>1, <2>2, <2>3, ResolutionBalances
<1>4. ASSUME NEW p \in Purchases, Buy(p[1], p[2])
      PROVE  LedgerBalanced'
  <2>1. bets' = bets /\ payments' = payments \cup {Purchase(p[1], p[2])}
    BY <1>4 DEF Buy
  <2>2. \A b \in Calls : {q \in payments' : q.bet = b} = {q \in payments : q.bet = b}
    BY <2>1, PurchaseType
  <2> QED
    BY <2>1, <2>2 DEF LedgerBalanced, Owed
<1>5. ASSUME UNCHANGED <<bets, payments>>
      PROVE  LedgerBalanced'
  BY <1>5 DEF LedgerBalanced, Owed
<1> QED
  BY <1>1, <1>2, <1>3, <1>4, <1>5 DEF Next, Advance, Feed, tables

\* Every bet is charged once, paid out once if it won and refunded once if it
\* was voided, and no payment is made for anything else.
THEOREM WagersLedger == Spec => []LedgerBalanced
<1>1. Init => LedgerBalanced
  BY DEF Init, LedgerBalanced
<1> QED
  BY <1>1, WagersTypes, NextLedger, PTL DEF Spec

-----------------------------------------------------------------------------
\* Resolving all that is pending on a market leaves nothing pending there and
\* touches no other bet.
LEMMA NextMarket == TypeOK /\ BetsFollowMarket /\ [Next]_tables => BetsFollowMarket'
<1> SUFFICES ASSUME TypeOK, BetsFollowMarket, [Next]_tables,
                    NEW c \in Calls, bets'[c] # None
             PROVE  LET o == bets'[c].snap.outcome
                        status == bets'[c].status
                    IN  /\ status = "pending" => /\ outcomeStatus'[o] = "open"
                                                 /\ eventStatus'[EventOf[o]] # "cancelled"
                        /\ status = "voided" => eventStatus'[EventOf[o]] = "cancelled"
                        /\ status \in {"won", "lost"} => outcomeStatus'[o] = status
  BY DEF BetsFollowMarket
<1>0. \A b \in Calls : bets[b] # None =>
        /\ bets[b] \in Bet
        /\ bets[b].snap.outcome \in Outcomes
        /\ EventOf[bets[b].snap.outcome] \in Events
        /\ bets[b].status \in BetStatus
  BY TablesAssumption DEF TypeOK, Bet, Snapshot
<1>1. ASSUME NEW b \in Calls, NEW bet \in NewBet, NEW k \in Keys, Place(b, bet, k), c = b
      PROVE  /\ bets'[c] = bet /\ bet.status = "pending"
             /\ outcomeStatus'[bet.snap.outcome] = "open"
             /\ eventStatus'[EventOf[bet.snap.outcome]] \in TakesBets
  BY <1>1 DEF Place, NewBet, TypeOK
<1>2. ASSUME NEW b \in Calls, NEW bet \in NewBet, NEW k \in Keys, Place(b, bet, k), c # b
      PROVE  /\ bets'[c] = bets[c]
             /\ UNCHANGED <<outcomeStatus, eventStatus>>
  BY <1>2 DEF Place, TypeOK
<1>3. ASSUME NEW o \in Outcomes, NEW won \in BOOLEAN, Settle(o, won)
      PROVE  LET status == IF won THEN "won" ELSE "lost"
             IN  /\ eventStatus' = eventStatus
                 /\ outcomeStatus' = [outcomeStatus EXCEPT ![o] = status]
                 /\ outcomeStatus[o] = "open"
                 /\ c \in PendingOn(bets, {o}) =>
                      /\ bets'[c].status = status /\ bets'[c].snap = bets[c].snap
                      /\ bets[c] # None /\ bets[c].snap.outcome = o
                 /\ c \notin PendingOn(bets, {o}) => bets'[c] = bets[c]
  <2>1. /\ PendingOn(bets, {o}) \in SUBSET Calls
        /\ \A b \in PendingOn(bets, {o}) : bets[b] \in Bet
    BY PendingIsBet
  <2>2. bets' = Resolved(PendingOn(bets, {o}), IF won THEN "won" ELSE "lost")
    BY <1>3 DEF Settle
  <2> QED
    BY <1>3, <2>1, <2>2, ResolvedBets, PendingIsBet DEF Settle
<1>4. ASSUME NEW e \in Events, Cancel(e)
      PROVE  /\ outcomeStatus' = outcomeStatus
             /\ eventStatus' = [eventStatus EXCEPT ![e] = "cancelled"]
             /\ c \in PendingOn(bets, OutcomesOf(e)) =>
                  /\ bets'[c].status = "voided" /\ bets'[c].snap = bets[c].snap
                  /\ bets[c] # None /\ EventOf[bets[c].snap.outcome] = e
             /\ c \notin PendingOn(bets, OutcomesOf(e)) => bets'[c] = bets[c]
  <2>1. /\ PendingOn(bets, OutcomesOf(e)) \in SUBSET Calls
        /\ \A b \in PendingOn(bets, OutcomesOf(e)) : bets[b] \in Bet
    BY PendingIsBet
  <2>2. bets' = Resolved(PendingOn(bets, OutcomesOf(e)), "voided")
    BY <1>4 DEF Cancel
  <2> QED
    BY <1>4, <2>1, <2>2, ResolvedBets, PendingIsBet DEF Cancel, OutcomesOf
<1>5. CASE \E b \in Calls, bet \in NewBet, k \in Keys : Place(b, bet, k)
  BY <1>1, <1>2, <1>5 DEF BetsFollowMarket
<1>6. CASE \E o \in Outcomes, won \in BOOLEAN : Settle(o, won)
  <2> PICK o \in Outcomes, won \in BOOLEAN : Settle(o, won)
    BY <1>6
  <2>1. CASE c \in PendingOn(bets, {o})
    BY <1>0, <1>3, <2>1 DEF TypeOK
  <2>2. CASE c \notin PendingOn(bets, {o})
    <3>1. bets'[c] = bets[c] /\ bets[c] # None
      BY <1>3, <2>2
    <3>2. bets[c].status = "pending" => bets[c].snap.outcome # o
      BY <2>2, <3>1 DEF PendingOn, TypeOK
    <3>3. /\ eventStatus' = eventStatus
          /\ \A x \in Outcomes \ {o} : outcomeStatus'[x] = outcomeStatus[x]
          /\ outcomeStatus[o] = "open"
      BY DEF Settle, TypeOK
    <3>4. bets[c].snap.outcome = o => bets[c].status = "voided"
      BY <1>0, <3>1, <3>2, <3>3 DEF BetsFollowMarket
    <3> QED
      BY <1>0, <3>1, <3>3, <3>4 DEF BetsFollowMarket
  <2> QED
    BY <2>1, <2>2
<1>7. CASE \E e \in Events : Cancel(e)
  <2> PICK e \in Events : Cancel(e)
    BY <1>7
  <2>1. CASE c \in PendingOn(bets, OutcomesOf(e))
    BY <1>0, <1>4, <2>1 DEF TypeOK
  <2>2. CASE c \notin PendingOn(bets, OutcomesOf(e))
    <3>1. bets'[c] = bets[c] /\ bets[c] # None
      BY <1>4, <2>2
    <3>2. bets[c].status = "pending" => EventOf[bets[c].snap.outcome] # e
      BY <1>0, <2>2, <3>1 DEF PendingOn, TypeOK, OutcomesOf
    <3> QED
      BY <1>0, <1>4, <3>1, <3>2 DEF BetsFollowMarket, TypeOK
  <2> QED
    BY <2>1, <2>2
<1>8. CASE \E e \in Events : Advance(e)
  <2> PICK e \in Events : Advance(e)
    BY <1>8
  <2>1. /\ UNCHANGED <<bets, outcomeStatus>>
        /\ \A f \in Events : (eventStatus'[f] = "cancelled") <=> (eventStatus[f] = "cancelled")
    BY DEF Advance, TypeOK
  <2> QED
    BY <1>0, <2>1 DEF BetsFollowMarket
<1>9. CASE UNCHANGED <<bets, outcomeStatus, eventStatus>>
  BY <1>9 DEF BetsFollowMarket
<1> QED
  BY <1>5, <1>6, <1>7, <1>8, <1>9 DEF Next, Buy, Feed, tables

\* A bet is pending only on an open market of a standing event, and ends the way
\* its market did.
THEOREM WagersMarket == Spec => []BetsFollowMarket
<1>1. Init => BetsFollowMarket
  BY DEF Init, BetsFollowMarket
<1> QED
  BY <1>1, WagersTypes, NextMarket, PTL DEF Spec
=============================================================================
