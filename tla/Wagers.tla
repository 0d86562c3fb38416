------------------------------ MODULE Wagers ------------------------------
(***************************************************************************)
(* What betting promises: every operation is one indivisible step on the   *)
(* tables.  A bet is taken at the newest price of an open market together  *)
(* with its charge, a settlement resolves every pending bet of its outcome *)
(* together with the payouts, a cancellation voids every pending bet of    *)
(* its event together with the refunds.  Betting, where the operations are *)
(* transactions that interleave statement by statement, implements this    *)
(* specification.                                                          *)
(***************************************************************************)
EXTENDS BettingTables

VARIABLES
  eventStatus,    \* sports_events.status
  outcomeStatus,  \* outcomes.status
  snapshots,      \* the rows of odds_snapshots
  bets,           \* the rows of bets, None where a call has placed none
  payments        \* the rows of payments

tables == <<eventStatus, outcomeStatus, snapshots, bets, payments>>

Init ==
  /\ eventStatus \in [Events -> TakesBets]
  /\ outcomeStatus = [o \in Outcomes |-> "open"]
  /\ snapshots = SeedSnapshots
  /\ bets = [b \in Calls |-> None]
  /\ payments = {}

\* What NUMERIC(12,2) and UNIQUE (idempotency_key) let into payments; an INSERT of
\* anything else fails, and its operation with it.
Insertable(pays) ==
  \A p \in pays : p.amount <= MaxMoney /\ \A q \in payments : q.key # p.key

\* place_bet, as its docstring promises it.
Place(b, bet, k) ==
  /\ bets[b] = None
  /\ outcomeStatus[bet.snap.outcome] = "open"
  /\ eventStatus[EventOf[bet.snap.outcome]] \in TakesBets
  /\ IsNewest(bet.snap, snapshots, bet.snap.outcome)
  /\ Insertable({Charge(b, bet, k)})
  /\ bets' = [bets EXCEPT ![b] = bet]
  /\ payments' = payments \cup {Charge(b, bet, k)}
  /\ UNCHANGED <<eventStatus, outcomeStatus, snapshots>>

\* The bets a caller can ask for at the prices there are.
NewBet == [user : Users, snap : snapshots, stake : {Quantized(t) : t \in Stakes} \cap 1 .. MaxMoney,
           session : Sessions \cup {None}, status : {"pending"}]

Resolved(bs, status) ==
  [b \in Calls |-> IF b \in bs THEN [bets[b] EXCEPT !.status = status] ELSE bets[b]]

\* settle_outcome(o, won)
Settle(o, won) ==
  LET due == PendingOn(bets, {o})
      pays == IF won THEN {PayoutOf(b, bets[b]) : b \in due} ELSE {}
  IN  /\ outcomeStatus[o] = "open"
      /\ eventStatus[EventOf[o]] # "cancelled"
      /\ Insertable(pays)
      /\ outcomeStatus' = [outcomeStatus EXCEPT ![o] = IF won THEN "won" ELSE "lost"]
      /\ bets' = Resolved(due, IF won THEN "won" ELSE "lost")
      /\ payments' = payments \cup pays
      /\ UNCHANGED <<eventStatus, snapshots>>

\* cancel_event(e)
Cancel(e) ==
  LET due  == PendingOn(bets, OutcomesOf(e))
      pays == {RefundOf(b, bets[b]) : b \in due}
  IN  /\ eventStatus[e] \in TakesBets
      /\ Insertable(pays)
      /\ eventStatus' = [eventStatus EXCEPT ![e] = "cancelled"]
      /\ bets' = Resolved(due, "voided")
      /\ payments' = payments \cup pays
      /\ UNCHANGED <<outcomeStatus, snapshots>>

\* purchase_subscription, as far as it is payments.
Buy(u, k) ==
  /\ Insertable({Purchase(u, k)})
  /\ payments' = payments \cup {Purchase(u, k)}
  /\ UNCHANGED <<eventStatus, outcomeStatus, snapshots, bets>>

\* Prices arrive: one by record_odds_update, or the rows of a batch, late and out
\* of order, by flush_odds_queue.
Feed(arrived) ==
  /\ \A s \in arrived, t \in snapshots \cup arrived :
       t.outcome = s.outcome /\ t.at = s.at => t = s /\ t \notin snapshots
  /\ snapshots' = snapshots \cup arrived
  /\ UNCHANGED <<eventStatus, outcomeStatus, bets, payments>>

\* The match starts, the match ends.
Advance(e) ==
  /\ \/ /\ eventStatus[e] = "scheduled"
        /\ eventStatus' = [eventStatus EXCEPT ![e] = "live"]
     \/ /\ eventStatus[e] = "live"
        /\ eventStatus' = [eventStatus EXCEPT ![e] = "finished"]
  /\ UNCHANGED <<outcomeStatus, snapshots, bets, payments>>

Next ==
  \/ \E b \in Calls, bet \in NewBet, k \in Keys : Place(b, bet, k)
  \/ \E o \in Outcomes, won \in BOOLEAN : Settle(o, won)
  \/ \E e \in Events : Cancel(e) \/ Advance(e)
  \/ \E p \in Purchases : Buy(p[1], p[2])
  \/ \E arrived \in SUBSET Snapshot : Feed(arrived)

Spec == Init /\ [][Next]_tables

-----------------------------------------------------------------------------
TypeOK ==
  /\ eventStatus \in [Events -> EventStatus]
  /\ outcomeStatus \in [Outcomes -> OutcomeStatus]
  /\ snapshots \subseteq Snapshot
  /\ bets \in [Calls -> Bet \cup {None}]
  /\ payments \subseteq Payment

\* The payments a bet in its present state must have, no more and no fewer.
Owed(b, k) ==
  {Charge(b, bets[b], k)}
    \cup (IF bets[b].status = "won" THEN {PayoutOf(b, bets[b])} ELSE {})
    \cup (IF bets[b].status = "voided" THEN {RefundOf(b, bets[b])} ELSE {})

\* Money and bets agree: a bet is charged exactly once, paid out exactly once
\* if it won, refunded exactly once if it was voided, and nothing is paid for
\* a bet that is not there (BET and PAYMENT commit together, place_bet; a
\* duplicated settlement cannot pay a winner twice, settle_outcome).
LedgerBalanced ==
  \A b \in Calls :
    LET about == {p \in payments : p.bet = b}
    IN  IF bets[b] = None THEN about = {}
                          ELSE \E k \in Keys : about = Owed(b, k)

\* UNIQUE (idempotency_key): bets, payouts, refunds and subscriptions share one
\* space of keys, and a key is on one payment (place_bet, purchase_subscription).
OnePaymentPerKey == \A p, q \in payments : p.key = q.key => p = q

\* No bet is left behind: a bet is pending only while its market is open and
\* its event stands, and what it became is what happened to its market
\* ("a bet can never land on an already-settled outcome", place_bet; "either
\* commits first or sees a closed event, never both", cancel_event).
BetsFollowMarket ==
  \A b \in Calls : bets[b] # None =>
    LET o == bets[b].snap.outcome
        status == bets[b].status
    IN  /\ status = "pending" => /\ outcomeStatus[o] = "open"
                                 /\ eventStatus[EventOf[o]] # "cancelled"
        /\ status = "voided" => eventStatus[EventOf[o]] = "cancelled"
        /\ status \in {"won", "lost"} => outcomeStatus[o] = status
=============================================================================
