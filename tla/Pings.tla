------------------------------- MODULE Pings -------------------------------
(***************************************************************************)
(* operations/engagement.py: the pings of streaming sessions are counted   *)
(* in sports_events.ping_count, by record_ping directly, or by             *)
(* record_ping_redis in a counter of Redis that flush_counters pops and    *)
(* adds.  The lookup of the latest price changes nothing and is left out.  *)
(***************************************************************************)
EXTENDS Integers, FiniteSets, Sequences, RowLocks

CONSTANTS
  Calls,       \* invocations of the operations
  Requests,    \* what callers may ask for
  Events,      \* sports_event_id's
  Sessions,    \* session_id's with a row in streaming_sessions
  SessionIds,  \* session_id's callers may name
  EventOf,     \* streaming_sessions.sports_event_id
  None

Ping  == [op : {"sql", "redis"}, session : SessionIds, fails : BOOLEAN]
Flush == [op : {"flush"}]

ASSUME PingsAssumption ==
  /\ Requests \subseteq Ping \cup Flush
  /\ Sessions \subseteq SessionIds /\ EventOf \in [Sessions -> Events]
  /\ None \notin Requests \cup Nat \cup [event : Events, delta : Nat]

VARIABLES
  pingCount,   \* sports_events.ping_count
  ended,       \* sessions of which ended_at is set
  counters,    \* Redis: the ping_key's, 0 where there is none
  req, pc,     \* what each call was asked, and the step it takes next
  held,        \* the row locks of its transaction
  count,       \* new_count: what its UPDATE or INCR returned
  owed,        \* the keys SCAN still has to report to it
  popped,      \* the counter it has popped and not written yet
  results,     \* the list flush_counters returns
  reply

work == <<held, count, owed, popped, results>>
vars == <<pingCount, ended, counters, req, pc, work, reply>>

Labels == {"idle", "session", "update", "incr", "scan", "take", "write", "commit", "done"}

Init ==
  /\ pingCount = [e \in Events |-> 0]
  /\ ended = {}
  /\ counters = [e \in Events |-> 0]
  /\ req = [c \in Calls |-> None]
  /\ pc = [c \in Calls |-> "idle"]
  /\ held = [c \in Calls |-> {}]
  /\ count = [c \in Calls |-> None]
  /\ owed = [c \in Calls |-> {}]
  /\ popped = [c \in Calls |-> None]
  /\ results = [c \in Calls |-> <<>>]
  /\ reply = [c \in Calls |-> "none"]

-----------------------------------------------------------------------------
At(c, op, label) == pc[c] = label /\ req[c].op = op
EventAt(c) == IF req[c].op = "flush" THEN popped[c].event ELSE EventOf[req[c].session]

\* UPDATE sports_events, of a column outside the keys.
Wanted(c) == IF pc[c] \in {"update", "write"} THEN NoKeyUpdate("event", {EventAt(c)}) ELSE {}

Granted(c) == Holders(held, c, Wanted(c)) = {}
Take(c)    == held' = [held EXCEPT ![c] = @ \cup Wanted(c)]
Go(c, label) == pc' = [pc EXCEPT ![c] = label]

\* The call ends, its transaction with it; what it popped stays popped.
Answer(c, kind) ==
  /\ Go(c, "done")
  /\ reply' = [reply EXCEPT ![c] = kind]
  /\ held' = [held EXCEPT ![c] = {}]
  /\ owed' = [owed EXCEPT ![c] = {}]
  /\ UNCHANGED <<ended, req>>
Return(c, kind) == Answer(c, kind) /\ UNCHANGED <<pingCount, counters, count, popped, results>>

Start(c, r) ==
  /\ pc[c] = "idle"
  /\ req' = [req EXCEPT ![c] = r]
  /\ Go(c, IF r.op = "flush" THEN "scan" ELSE "session")
  /\ UNCHANGED <<pingCount, ended, counters, work, reply>>

-----------------------------------------------------------------------------
\* record_ping, record_ping_redis

PingReadSession(c) ==
  /\ pc[c] = "session"
  /\ \/ /\ req[c].session \in Sessions \ ended
        /\ Go(c, IF req[c].op = "sql" THEN "update" ELSE "incr")
        /\ UNCHANGED <<pingCount, ended, counters, req, work, reply>>
     \/ req[c].session \notin Sessions \ ended /\ Return(c, "rejected")

\* Mutant: ping_count read and written back without a lock.
PingUpdateUnlocked(c) ==
  /\ pc[c] = "update"
  /\ count' = [count EXCEPT ![c] = pingCount[EventAt(c)] + 1]
  /\ Go(c, "commit")
  /\ UNCHANGED <<pingCount, ended, counters, req, held, owed, popped, results, reply>>

\* SET ping_count = ping_count + 1 RETURNING ping_count, on the row as it is once
\* it is locked; fail_after_increment rolls it back.
PingUpdate(c) ==
  /\ pc[c] = "update" /\ Granted(c)
  /\ \/ req[c].fails /\ Return(c, "failed")
     \/ /\ ~ req[c].fails
        /\ count' = [count EXCEPT ![c] = pingCount[EventAt(c)] + 1]
        /\ Take(c) /\ Go(c, "commit")
        /\ UNCHANGED <<pingCount, ended, counters, req, owed, popped, results, reply>>

PingCommit(c) ==
  /\ At(c, "sql", "commit")
  /\ pingCount' = [pingCount EXCEPT ![EventAt(c)] = count[c]]
  /\ Answer(c, "recorded") \/ Answer(c, "unanswered")
  /\ UNCHANGED <<counters, count, popped, results>>

\* INCR is not undone by fail_after_increment, nor by a lost connection.
PingIncr(c) ==
  /\ pc[c] = "incr"
  /\ counters' = [counters EXCEPT ![EventAt(c)] = @ + 1]
  /\ count' = [count EXCEPT ![c] = counters[EventAt(c)] + 1]
  /\ \/ req[c].fails /\ Answer(c, "failed")
     \/ ~ req[c].fails /\ Answer(c, "recorded")
     \/ Answer(c, "unanswered")
  /\ UNCHANGED <<pingCount, popped, results>>

-----------------------------------------------------------------------------
\* flush_counters

\* SCAN owes every key that stays from here to its end, and may report others,
\* and any of them twice.
FlushScan(c) ==
  /\ pc[c] = "scan"
  /\ owed' = [owed EXCEPT ![c] = {e \in Events : counters[e] > 0}]
  /\ Go(c, "take")
  /\ UNCHANGED <<pingCount, ended, counters, req, held, count, popped, results, reply>>

\* Mutant: GET, the key is not deleted.
FlushGet(c, e) ==
  /\ pc[c] = "take" /\ counters[e] > 0 /\ e \in owed[c]
  /\ owed' = [owed EXCEPT ![c] = @ \ {e}]
  /\ popped' = [popped EXCEPT ![c] = [event |-> e, delta |-> counters[e]]]
  /\ Go(c, "write")
  /\ UNCHANGED <<pingCount, ended, counters, req, held, count, results, reply>>

\* Mutant: a counter of zero is not passed over.
FlushTakeAny(c, e) ==
  /\ pc[c] = "take" /\ e \in owed[c] \cup {f \in Events : counters[f] = 0}
  /\ counters' = [counters EXCEPT ![e] = 0]
  /\ owed' = [d \in Calls |-> owed[d] \ {e}]
  /\ popped' = [popped EXCEPT ![c] = [event |-> e, delta |-> counters[e]]]
  /\ Go(c, "write")
  /\ UNCHANGED <<pingCount, ended, req, held, count, results, reply>>

\* GETDEL of a reported key; one that is gone is passed over.  With probability p
\* the value is dropped.
FlushTake(c, e) ==
  /\ pc[c] = "take" /\ counters[e] > 0
  /\ counters' = [counters EXCEPT ![e] = 0]
  /\ owed' = [d \in Calls |-> owed[d] \ {e}]
  /\ \/ /\ popped' = [popped EXCEPT ![c] = [event |-> e, delta |-> counters[e]]]
        /\ Go(c, "write")
        /\ UNCHANGED results
     \/ /\ results' = [results EXCEPT ![c] =
             Append(@, [event |-> e, delta |-> counters[e], persisted |-> FALSE])]
        /\ UNCHANGED <<pc, popped>>
  /\ UNCHANGED <<pingCount, ended, req, held, count, reply>>

FlushWrite(c) ==
  /\ pc[c] = "write" /\ Granted(c)
  /\ count' = [count EXCEPT ![c] = pingCount[EventAt(c)] + popped[c].delta]
  /\ Take(c) /\ Go(c, "commit")
  /\ UNCHANGED <<pingCount, ended, counters, req, owed, popped, results, reply>>

FlushCommit(c) ==
  /\ At(c, "flush", "commit")
  /\ pingCount' = [pingCount EXCEPT ![EventAt(c)] = count[c]]
  /\ popped' = [popped EXCEPT ![c] = None]
  /\ results' = [results EXCEPT ![c] =
       Append(@, [event |-> EventAt(c), delta |-> popped[c].delta, persisted |-> TRUE])]
  /\ UNCHANGED <<counters, count>>
  /\ \/ /\ Go(c, "take") /\ held' = [held EXCEPT ![c] = {}]
        /\ UNCHANGED <<ended, req, owed, reply>>
     \/ Answer(c, "unanswered")

\* SCAN has reported what it owes.
FlushEnd(c) == pc[c] = "take" /\ owed[c] = {} /\ Return(c, "flushed")

-----------------------------------------------------------------------------
\* The process dies, or a connection breaks or cannot be had.
Crash(c) == pc[c] \notin {"idle", "done"} /\ Return(c, "failed")

\* end_streaming_session, end_streaming_sessions_bulk
EndSession(x) ==
  /\ x \in Sessions \ ended
  /\ ended' = ended \cup {x}
  /\ UNCHANGED <<pingCount, counters, req, pc, work, reply>>

Finished == (\A c \in Calls : pc[c] = "done") /\ UNCHANGED vars

PingStep(c)  == PingReadSession(c) \/ PingUpdate(c) \/ PingCommit(c) \/ PingIncr(c)
FlushStep(c) == FlushScan(c) \/ FlushWrite(c) \/ FlushCommit(c) \/ FlushEnd(c)
                \/ \E e \in Events : FlushTake(c, e)

Next ==
  \/ \E c \in Calls : (\E r \in Requests : Start(c, r)) \/ PingStep(c) \/ FlushStep(c) \/ Crash(c)
  \/ \E x \in Sessions : EndSession(x)
  \/ Finished

Spec == Init /\ [][Next]_vars

-----------------------------------------------------------------------------
(* Properties *)

TypeOK ==
  /\ pingCount \in [Events -> Nat] /\ counters \in [Events -> Nat]
  /\ ended \subseteq Sessions
  /\ req \in [Calls -> Requests \cup {None}] /\ pc \in [Calls -> Labels]
  /\ count \in [Calls -> Nat \cup {None}]
  /\ \A c \in Calls :
       /\ owed[c] \subseteq Events
       /\ popped[c] # None => popped[c].event \in Events /\ popped[c].delta > 0
       /\ pc[c] = "write" \/ At(c, "flush", "commit") => popped[c] # None

\* The pings that count: what record_ping has committed and record_ping_redis has
\* incremented, whatever their callers were told.
Counts(c) ==
  /\ req[c] # None /\ req[c].op # "flush" /\ count[c] # None
  /\ req[c].op = "sql" => reply[c] \in {"recorded", "unanswered"}
Counted(e) == {c \in Calls : Counts(c) /\ EventAt(c) = e}

\* One element for every ping that a flush has popped and not written, and for
\* every one that it has reported as not persisted.
InHand(e) ==
  UNION {{c} \X (1 .. popped[c].delta) :
           c \in {d \in Calls : popped[d] # None /\ popped[d].event = e}}
SkippedAt(c, e) == {i \in DOMAIN results[c] : results[c][i].event = e /\ ~ results[c][i].persisted}
Skipped(e) ==
  UNION {UNION {{<<c, i>>} \X (1 .. results[c][i].delta) : i \in SkippedAt(c, e)} : c \in Calls}

\* Every ping is in the row, in Redis, in the hands of one flush, or reported as
\* not persisted, and nothing counts twice, whichever way the two paths overlap.
PingsConserved ==
  \A e \in Events :
    Cardinality(Counted(e)) = pingCount[e] + counters[e]
      + Cardinality(InHand(e)) + Cardinality(Skipped(e))

\* No two calls of record_ping get the same count: "no lost updates"
\* (302-oltp-ping-baseline.md).
CountsDiffer ==
  \A c, d \in Calls :
    c # d /\ {reply[c], reply[d]} = {"recorded"} /\ req[c].op = "sql" /\ req[d].op = "sql"
      /\ EventAt(c) = EventAt(d) => count[c] # count[d]
=============================================================================
