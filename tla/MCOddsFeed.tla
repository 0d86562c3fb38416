----------------------------- MODULE MCOddsFeed -----------------------------
(***************************************************************************)
(* Small instances of OddsFeed for TLC.                                    *)
(***************************************************************************)
EXTENDS OddsFeed, TLC

Symmetry == Permutations(Calls)

RecordOf(o, t, p) == [op |-> "record", outcome |-> o, at |-> t, price |-> p]
QueueOf(o, t, p)  == [op |-> "queue", outcome |-> o, at |-> t, price |-> p]
FlushOf           == [op |-> "flush"]
SettlesOf(o)      == [op |-> "close", outcomes |-> {o}, settles |-> TRUE]
CancelsOf(os)     == [op |-> "close", outcomes |-> os, settles |-> FALSE]

\* Ticks of one outcome over both paths, out of order and for the same moment,
\* of one that is settled or cancelled with its event, of one with a price that
\* is none and of an id without a row.
FeedRequests ==
  {RecordOf(1, 2, 2000), QueueOf(1, 1, 2000), QueueOf(1, 2, 1500), QueueOf(2, 1, 1500),
   RecordOf(2, 1, 1000), QueueOf(9, 1, 1500), FlushOf, SettlesOf(1), CancelsOf({1, 2})}

\* Outcome 2 has a row from before the columns of the latest price.
FeedSeed == {[outcome |-> 2, at |-> 2, price |-> 2000]}

NoSeed == {}

\* A cancellation during a flush, an old tick on a newer row.
CancelRequests  == {QueueOf(1, 1, 1500), QueueOf(2, 1, 1500), FlushOf, CancelsOf({1, 2})}
SeedRequests    == {RecordOf(1, 1, 1500)}
LateSeed        == {[outcome |-> 1, at |-> 2, price |-> 2000]}
=============================================================================
