------------------------------- MODULE Ticker -------------------------------
(***************************************************************************)
(* What the odds feed promises: a tick that was accepted is pending until  *)
(* it lands or is lost, once and with the others of its batch; a moment of *)
(* an outcome has one price; and the cached latest price moves in the same *)
(* step as the rows, only forward.  OddsFeed, with its queue, its cache    *)
(* and its interleaving transactions, implements this specification.       *)
(***************************************************************************)
EXTENDS Integers

CONSTANTS
  Outcomes,       \* outcome_id's
  SeedSnapshots,  \* the rows there are at the start
  None

VARIABLES
  snapshots,  \* the rows: [outcome |-> .., at |-> .., price |-> ..]
  latest,     \* each outcome's cached price, as a row
  pending,    \* the ticks accepted, [id |-> .., row |-> ..], and not landed or lost
  gone        \* those that are

vars == <<snapshots, latest, pending, gone>>

Init ==
  /\ snapshots = SeedSnapshots
  /\ latest = [o \in Outcomes |-> None]
  /\ pending = {} /\ gone = {}

SameKey(r, s) == r.outcome = s.outcome /\ r.at = s.at

\* Every key of the rows is there afterwards, with the price that came first.
Insert(rows) ==
  /\ snapshots \subseteq snapshots'
  /\ \A r \in snapshots' \ snapshots :
       r \in rows /\ \A s \in snapshots' : SameKey(r, s) => r = s
  /\ \A r \in rows : \E s \in snapshots' : SameKey(r, s)

RollForward(rows) ==
  \A o \in Outcomes :
    LET newer == {r \in rows : r.outcome = o /\ (latest[o] = None \/ latest[o].at < r.at)}
    IN  IF newer = {} THEN latest'[o] = latest[o]
        ELSE latest'[o] \in newer /\ \A r \in newer : r.at <= latest'[o].at

\* record_odds_update
Record ==
  \E r \in snapshots' \ snapshots :
    /\ \A s \in snapshots : ~ SameKey(r, s)
    /\ Insert({r}) /\ RollForward({r})
    /\ UNCHANGED <<pending, gone>>

\* record_odds_update_redis
Accept ==
  \E t \in pending' \ pending :
    /\ t \notin gone
    /\ pending' = pending \cup {t}
    /\ UNCHANGED <<snapshots, latest, gone>>

\* flush_odds_queue lands a batch, or pops it for nothing.
Leave(ticks) ==
  /\ ticks # {} /\ pending' = pending \ ticks
  /\ gone' = gone \cup ticks

Land ==
  LET ticks == pending \ pending'
      rows  == {t.row : t \in ticks}
  IN  Leave(ticks) /\ Insert(rows) /\ RollForward(rows)

Lose == Leave(pending \ pending') /\ UNCHANGED <<snapshots, latest>>

Next == Record \/ Accept \/ Land \/ Lose

Spec == Init /\ [][Next]_vars
=============================================================================
