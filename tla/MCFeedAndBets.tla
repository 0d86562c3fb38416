--------------------------- MODULE MCFeedAndBets ---------------------------
(***************************************************************************)
(* A small instance of FeedAndBets for TLC.                                *)
(***************************************************************************)
EXTENDS FeedAndBets, MCBetting

\* A newer tick for each of the seeded prices: a batch of two outcomes.
FeedTicks == {[outcome |-> o, at |-> 1, price |-> 1500] : o \in Outcomes}
=============================================================================
