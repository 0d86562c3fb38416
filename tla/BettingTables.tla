--------------------------- MODULE BettingTables ---------------------------
(***************************************************************************)
(* The rows that placing, settling and voiding a bet read and write        *)
(* (models.py), and the constants an instance of the database is built     *)
(* from.  No variables: Wagers and Betting keep these tables, the first as *)
(* a caller sees them, the second as the transactions change them.         *)
(***************************************************************************)
EXTENDS Integers, Money

CONSTANTS
  Calls,          \* invocations of the operations; the bet a call places has its name
  Users,          \* user_id's with a row in users
  Events,         \* sports_event_id's with a row in sports_events
  Outcomes,       \* outcome_id's with a row in outcomes, ordered as integers
  EventOf,        \* outcomes.sports_event_id
  Sessions,       \* session_id's with a row in streaming_sessions
  OwnerOf,        \* streaming_sessions.user_id
  Keys,           \* idempotency keys callers choose
  Purchases,      \* who buys a subscription meanwhile, with which key
  Fee,            \* what it costs
  Stakes,         \* stakes callers ask for, in tenths of a cent
  Prices,         \* prices of odds_snapshots rows, in thousandths
  Times,          \* readings of the clock
  SeedSnapshots,  \* the odds_snapshots rows the database starts with
  MaxMoney,       \* the largest amount of cents NUMERIC(12,2) holds
  None            \* NULL

ASSUME TablesAssumption ==
  /\ None \notin Calls \cup Sessions
  /\ Outcomes \subseteq Int
  /\ EventOf \in [Outcomes -> Events]
  /\ OwnerOf \in [Sessions -> Users]
  /\ Stakes \subseteq Int
  /\ Prices \subseteq Nat /\ \A p \in Prices : p > 1000   \* ck_price_gt_one
  /\ Times \subseteq Nat
  /\ MaxMoney \in Nat

EventStatus   == {"scheduled", "live", "finished", "cancelled"}
OutcomeStatus == {"open", "won", "lost"}
BetStatus     == {"pending", "won", "lost", "voided"}

\* event.status in (scheduled, live), outcome.status == open
TakesBets == {"scheduled", "live"}

Snapshot == [outcome : Outcomes, at : Times, price : Prices]

\* uq_snapshot_outcome_time
ASSUME SeedAssumption ==
  /\ SeedSnapshots \subseteq Snapshot
  /\ \A s, t \in SeedSnapshots :
       s.outcome = t.outcome /\ s.at = t.at => s = t

\* A bets row; snap stands for the odds_snapshots row snapshot_id names, which
\* nothing ever changes.
Bet == [user : Users, snap : Snapshot, stake : 1 .. MaxMoney,
        session : Sessions \cup {None}, status : BetStatus]

ASSUME NullAssumption == None \notin Bet \cup Snapshot

\* f"payout:{bet_id}" and f"void:{bet_id}", a prefix and an id.  They share one
\* column with the callers' keys, and nothing keeps a caller from choosing one
\* of them: Keys may have some of these among its elements.
PayoutKey(b) == <<"payout", b>>
VoidKey(b)   == <<"void", b>>
PaymentKey   == Keys \cup {"payout", "void"} \X Calls

\* A payments row, of a bet or (bet_id NULL) of a subscription; currency, status
\* and method are left out.
Payment == [user : Users, bet : Calls \cup {None}, amount : 1 .. MaxMoney,
            direction : {"debit", "credit"}, key : PaymentKey]

ASSUME PurchasesAssumption == Purchases \subseteq Users \X Keys /\ Fee \in 1 .. MaxMoney

Purchase(u, k)    == [user |-> u, bet |-> None, amount |-> Fee, direction |-> "debit", key |-> k]

Charge(b, bet, k) == [user |-> bet.user, bet |-> b, amount |-> bet.stake,
                      direction |-> "debit", key |-> k]
PayoutOf(b, bet)  == [user |-> bet.user, bet |-> b,
                      amount |-> Payout(bet.stake, bet.snap.price),
                      direction |-> "credit", key |-> PayoutKey(b)]
RefundOf(b, bet)  == [user |-> bet.user, bet |-> b, amount |-> bet.stake,
                      direction |-> "credit", key |-> VoidKey(b)]

\* ORDER BY captured_at DESC LIMIT 1
IsNewest(s, rows, o) ==
  /\ s \in rows
  /\ s.outcome = o
  /\ \A t \in rows : t.outcome = o => t.at <= s.at

\* Mutant: the join without bets.status = pending.
PendingOnAnyStatus(bets, os) ==
  {b \in DOMAIN bets : bets[b] # None /\ bets[b].snap.outcome \in os}

\* The bets a market in os still has to resolve: the join of bets with
\* odds_snapshots on bets.status = pending.
PendingOn(bets, os) ==
  {b \in DOMAIN bets : /\ bets[b] # None
                       /\ bets[b].status = "pending"
                       /\ bets[b].snap.outcome \in os}

OutcomesOf(e) == {o \in Outcomes : EventOf[o] = e}
=============================================================================
