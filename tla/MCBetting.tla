----------------------------- MODULE MCBetting -----------------------------
(***************************************************************************)
(* Small instances of Betting for TLC.                                     *)
(***************************************************************************)
EXTENDS Betting, TLC

\* All outcomes are of one event.
MCEventOf == [o \in Outcomes |-> "e1"]

\* The first session is user 1's, any other user 2's.
CONSTANTS x1, x2
MCOwnerOf == [x \in Sessions |-> IF x = x1 THEN 1 ELSE 2]

MCSeed == [outcome : Outcomes, at : {0}, price : Prices]

Symmetry == Permutations(Calls)

PlaceBy(u, o, t, x, k) ==
  [op |-> "place", user |-> u, outcome |-> o, stake |-> t, session |-> x, key |-> k]
SettleOf(o, won) == [op |-> "settle", outcome |-> o, won |-> won]
CancelOf(e)      == [op |-> "cancel", event |-> e]

\* The keys of callers: two of their own, and those of payouts.
CONSTANTS k1, k2
Payouts == {PayoutKey(b) : b \in Calls}
MCKeys  == {k1, k2} \cup Payouts

\* The key of a bet may be that of somebody's subscription, too.
MCPurchases == {<<2, k1>>}

\* One market under every operation: bets by two users, clicked twice or under the
\* key of a payout, both results, a cancellation.
MarketRequests ==
  {PlaceBy(1, 1, 1005, None, k1)} \cup {PlaceBy(2, 1, 1005, None, k) : k \in Payouts}
    \cup {SettleOf(1, won) : won \in BOOLEAN} \cup {CancelOf("e1")}

\* Bets of one user, clicked once or twice, while an earlier one is paid out or
\* refunded: the calls that deadlock.
AnswerRequests ==
  {PlaceBy(1, 1, 1005, None, k) : k \in {k1, k2}} \cup {SettleOf(1, TRUE), CancelOf("e1")}

\* An event with two markets: cancellations race with bets and settlements on
\* either, and with each other, bets in a session with its end, and bets on the two
\* markets with each other for a key.
EventRequests ==
  {PlaceBy(1, 1, 1005, x, k1) : x \in Sessions}
    \cup {PlaceBy(2, 2, 1005, None, k) : k \in {k1, k2}} \cup {SettleOf(2, TRUE), CancelOf("e1")}

\* What callers may get wrong, and the limits of the columns: unknown ids, a
\* stake that rounds to nothing, a stake and a payout that do not fit, a session
\* that ends, a price that is out of date.
EdgeRequests ==
  {PlaceBy(1, 1, t, None, k1) : t \in {5, 8000, 20000}} \cup {PlaceBy(1, 1, 1015, x, k1) : x \in Sessions}
    \cup {PlaceBy(9, 1, 1015, None, k1), PlaceBy(1, 9, 1015, None, k1)}
    \cup {SettleOf(1, TRUE), SettleOf(9, TRUE), CancelOf("e1"), CancelOf("e9")}
=============================================================================
