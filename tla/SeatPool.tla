------------------------------ MODULE SeatPool ------------------------------
(***************************************************************************)
(* What subscriptions and streaming promise: a user has one active         *)
(* subscription, and the sessions on it take seats of its plan, never more *)
(* than there are, and give them back for good.  Every operation is one    *)
(* step here; Seats, where they are transactions that interleave statement *)
(* by statement, implements this specification.                            *)
(***************************************************************************)
EXTENDS Integers, FiniteSets

CONSTANTS
  CapOf,                  \* the seats of each plan
  SeedSubs, SeedSessions  \* what is there at the start

VARIABLES
  subs,     \* the active subscriptions
  watching, \* the sessions that have a seat
  gone      \* those that have given theirs back

vars == <<subs, watching, gone>>

Init == subs = SeedSubs /\ watching = SeedSessions /\ gone = {}

\* purchase_subscription
Subscribe ==
  \E s \in subs' \ subs :
    /\ \A t \in subs : t.user # s.user
    /\ subs' = subs \cup {s}
    /\ UNCHANGED <<watching, gone>>

Taken(s) == {x \in watching : x.sub = s.id}

\* start_streaming_session
TakeSeat ==
  \E x \in watching' \ watching :
    /\ x \notin gone
    /\ \E s \in subs : s.id = x.sub /\ Cardinality(Taken(s)) < CapOf[s.plan]
    /\ watching' = watching \cup {x}
    /\ UNCHANGED <<subs, gone>>

\* end_streaming_session, and end_streaming_sessions_bulk of several at once
FreeSeats ==
  /\ watching' \subseteq watching
  /\ gone' = gone \cup (watching \ watching')
  /\ UNCHANGED subs

Next == FreeSeats \/ TakeSeat \/ Subscribe

Spec == Init /\ [][Next]_vars
=============================================================================
