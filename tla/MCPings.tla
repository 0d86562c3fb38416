------------------------------ MODULE MCPings ------------------------------
(***************************************************************************)
(* Small instances of PooledPings for TLC.                                 *)
(***************************************************************************)
EXTENDS PooledPings, TLC

Symmetry == Permutations(Calls)

\* Two sessions, each on an event of its own.
MCEventOf == [x \in Sessions |-> IF x = "x3" THEN "e2" ELSE "e1"]

PingBy(how, x, fails) == [op |-> how, session |-> x, fails |-> fails]

\* Both paths on one event, flushes, and a few calls that fail or are refused.
PingRequests ==
  {PingBy(how, "x1", fails) : how \in {"sql", "redis"}, fails \in BOOLEAN}
    \cup {PingBy("redis", "x3", FALSE), PingBy("sql", "x9", FALSE), [op |-> "flush"]}

\* A single connection of each pool, and as many as there are calls.
MCSizes == {[db |-> n, redis |-> n] : n \in {1, Cardinality(Calls)}}
=============================================================================
