---------------------------- MODULE PingsProofs ----------------------------
(***************************************************************************)
(* No update of a ping counter is lost and every ping counts once, with    *)
(* any number of pings and flushes; and the two pools of connections give  *)
(* back what they lend, never lend more than they have and let nobody wait *)
(* in a circle, whatever their sizes.                                      *)
(*                                                                         *)
(* The invariant of the rows: a call that is about to commit has the row   *)
(* of its event locked, alone, and its count exceeds what is in the row,   *)
(* which never falls below what a recorded ping has been told.  That of    *)
(* the pings: for each event as many count as are in the row, in Redis, in *)
(* a flush's hands and among those it reports as not persisted, and what a *)
(* call is about to commit is what the row holds and what it adds.         *)
(***************************************************************************)
EXTENDS PooledPings, FiniteSetTheorems, FunctionTheorems, TLAPS

-----------------------------------------------------------------------------
(* The rows. *)

SqlRecorded(c) == reply[c] = "recorded" /\ req[c].op = "sql"

\* What holds of one call.
CallOK(c) ==
  /\ pc[c] # "idle" => req[c] \in Requests
  /\ pc[c] # "done" => reply[c] = "none"
  /\ pc[c] = "session" => req[c].op # "flush"
  /\ pc[c] \in {"scan", "take", "write"} => req[c].op = "flush"
  /\ pc[c] = "update" => req[c].op = "sql" /\ req[c].session \in Sessions
  /\ pc[c] = "incr" => req[c].op = "redis" /\ req[c].session \in Sessions
  /\ pc[c] = "commit" => /\ req[c].op \in {"sql", "flush"}
                         /\ req[c].op = "sql" => req[c].session \in Sessions
                         /\ count[c] \in Nat /\ count[c] > pingCount[EventAt(c)]
                         /\ held[c] = NoKeyUpdate("event", {EventAt(c)})
  /\ pc[c] # "commit" => held[c] = {}
  /\ pc[c] = "write" \/ At(c, "flush", "commit") => popped[c] # None
  /\ popped[c] # None => popped[c] \in [event : Events, delta : Nat] /\ popped[c].delta > 0
  /\ owed[c] \subseteq Events
  /\ SqlRecorded(c) => /\ pc[c] = "done" /\ req[c].session \in Sessions
                       /\ count[c] \in Nat /\ count[c] <= pingCount[EventAt(c)]

Functions == /\ pingCount \in [Events -> Nat] /\ counters \in [Events -> Nat]
             /\ ended \subseteq Sessions
             /\ req \in [Calls -> Requests \cup {None}] /\ pc \in [Calls -> Labels]
             /\ count \in [Calls -> Nat \cup {None}]
             /\ DOMAIN held = Calls /\ DOMAIN popped = Calls /\ DOMAIN reply = Calls
             /\ DOMAIN owed = Calls

\* Of the calls that are about to commit, no two write the same row.
OneWriter == \A c, d \in Calls :
  c # d /\ pc[c] = "commit" /\ pc[d] = "commit" => EventAt(c) # EventAt(d)

PingInv == Functions /\ (\A c \in Calls : CallOK(c)) /\ OneWriter /\ CountsDiffer

LEMMA PingInvTypes == PingInv => TypeOK
BY DEF PingInv, Functions, CallOK, TypeOK, At

\* What a request is.
LEMMA RequestKinds ==
  \A r \in Requests : \/ r.op \in {"sql", "redis"}
                      \/ r.op = "flush"
BY PingsAssumption DEF Ping, Flush

LEMMA EventIsOne ==
  ASSUME PingInv, NEW c \in Calls, pc[c] \in {"update", "write", "commit", "incr"}
  PROVE  EventAt(c) \in Events /\ req[c] \in Requests
<1>1. CallOK(c) /\ EventOf \in [Sessions -> Events]
  BY PingsAssumption DEF PingInv
<1>2. req[c] \in Requests
  BY <1>1 DEF CallOK
<1>3. CASE req[c].op = "flush"
  BY <1>1, <1>2, <1>3 DEF CallOK, EventAt, At
<1>4. CASE req[c].op # "flush"
  BY <1>1, <1>2, <1>4 DEF CallOK, EventAt, At
<1> QED
  BY <1>2, <1>3, <1>4

\* A lock is granted when nobody is about to commit the same row.
LEMMA GrantedAlone ==
  ASSUME PingInv, NEW c \in Calls, pc[c] \in {"update", "write"}, Granted(c)
  PROVE  \A d \in Calls \ {c} : pc[d] = "commit" => EventAt(d) # EventAt(c)
<1> SUFFICES ASSUME NEW d \in Calls \ {c}, pc[d] = "commit", EventAt(d) = EventAt(c)
             PROVE  FALSE
  OBVIOUS
<1> DEFINE l == [row |-> <<"event", EventAt(c)>>, mode |-> "no_key_update"]
<1>1. l \in Wanted(c) /\ l \in held[d]
  BY DEF Wanted, NoKeyUpdate, PingInv, CallOK
<1>2. Conflict(l, l)
  BY DEF Conflict
<1>3. DOMAIN held = Calls
  BY DEF PingInv, Functions
<1> QED
  BY <1>1, <1>2, <1>3 DEF Granted, Holders

-----------------------------------------------------------------------------
(* One call goes on. *)

\* The others stay as they are, and so do the rows c is not about to write,
\* which only grow.
OnlyCall(c) ==
  /\ \A d \in Calls \ {c} :
       /\ req'[d] = req[d] /\ pc'[d] = pc[d] /\ held'[d] = held[d] /\ count'[d] = count[d]
       /\ popped'[d] = popped[d] /\ reply'[d] = reply[d] /\ owed'[d] \subseteq owed[d]
  /\ \/ pingCount' = pingCount
     \/ /\ pc[c] = "commit"
        /\ pingCount' = [pingCount EXCEPT ![EventAt(c)] = count[c]]

LEMMA OthersStay ==
  ASSUME PingInv, NEW c \in Calls, OnlyCall(c), NEW d \in Calls \ {c}
  PROVE  CallOK(d)' /\ EventAt(d)' = EventAt(d)
<1>1. CallOK(d) /\ CallOK(c) /\ EventAt(d)' = EventAt(d)
  BY DEF PingInv, OnlyCall, EventAt
<1>2. pc[c] = "commit" /\ pc[d] = "commit" => EventAt(d) # EventAt(c)
  BY DEF PingInv, OneWriter
<1>3. pingCount \in [Events -> Nat]
  BY DEF PingInv, Functions
<1>4. pc[d] = "commit" => pingCount'[EventAt(d)] = pingCount[EventAt(d)]
  BY <1>2, <1>3, EventIsOne DEF OnlyCall
<1>5. SqlRecorded(d) => count[d] <= pingCount'[EventAt(d)]
  <2> SUFFICES ASSUME SqlRecorded(d)
               PROVE  count[d] <= pingCount'[EventAt(d)]
    OBVIOUS
  <2>1. count[d] \in Nat /\ count[d] <= pingCount[EventAt(d)] /\ EventAt(d) \in Events
    BY <1>1, PingsAssumption DEF CallOK, SqlRecorded, EventAt
  <2>2. CASE pingCount' = pingCount
    BY <2>1, <2>2
  <2>3. CASE pc[c] = "commit" /\ pingCount' = [pingCount EXCEPT ![EventAt(c)] = count[c]]
    <3>1. count[c] \in Nat /\ count[c] > pingCount[EventAt(c)]
      BY <1>1, <2>3 DEF CallOK
    <3>2. pingCount'[EventAt(d)] = IF EventAt(d) = EventAt(c) THEN count[c]
                                   ELSE pingCount[EventAt(d)]
      BY <1>3, <2>1, <2>3
    <3> QED
      BY <1>3, <2>1, <3>1, <3>2
  <2> QED
    BY <2>2, <2>3 DEF OnlyCall
<1>6. /\ req'[d] = req[d] /\ pc'[d] = pc[d] /\ held'[d] = held[d] /\ count'[d] = count[d]
      /\ popped'[d] = popped[d] /\ reply'[d] = reply[d] /\ owed'[d] \subseteq owed[d]
  BY DEF OnlyCall
<1>7. SqlRecorded(d)' <=> SqlRecorded(d)
  BY <1>6 DEF SqlRecorded
<1> QED
  BY <1>1, <1>4, <1>5, <1>6, <1>7 DEF CallOK, At

\* What is left to show when one call has gone on.
LEMMA OneCallStep ==
  ASSUME PingInv, NEW c \in Calls, OnlyCall(c), Functions', CallOK(c)',
         pc'[c] = "commit" =>
           \A d \in Calls \ {c} : pc[d] = "commit" => EventAt(d) # EventAt(c)',
         SqlRecorded(c)' =>
           /\ pc[c] = "commit" /\ req[c].op = "sql" /\ req'[c] = req[c] /\ count'[c] = count[c]
  PROVE  PingInv'
<1>1. \A d \in Calls \ {c} : CallOK(d)' /\ EventAt(d)' = EventAt(d)
  BY OthersStay
<1>2. OneWriter'
  BY <1>1 DEF OnlyCall, PingInv, OneWriter
<1>3. CountsDiffer'
  <2> SUFFICES ASSUME NEW x \in Calls, NEW y \in Calls, x # y, SqlRecorded(x)', SqlRecorded(y)',
                      EventAt(x)' = EventAt(y)'
               PROVE  count'[x] # count'[y]
    BY DEF CountsDiffer, SqlRecorded
  <2>1. \A d \in Calls \ {c} : (SqlRecorded(d)' <=> SqlRecorded(d)) /\ count'[d] = count[d]
    BY DEF OnlyCall, SqlRecorded
  <2>2. ASSUME NEW d \in Calls \ {c}, SqlRecorded(d), SqlRecorded(c)', EventAt(d)' = EventAt(c)'
        PROVE  count'[c] # count'[d]
    <3>1. pc[c] = "commit" /\ EventAt(c)' = EventAt(c) /\ count'[c] = count[c]
      BY <2>2 DEF EventAt
    <3>2. count[c] \in Nat /\ count[c] > pingCount[EventAt(c)]
      BY <3>1 DEF PingInv, CallOK
    <3>3. count[d] \in Nat /\ count[d] <= pingCount[EventAt(d)]
      BY <2>2 DEF PingInv, CallOK
    <3>4. EventAt(d) = EventAt(c) /\ EventAt(c) \in Events
      BY <1>1, <2>2, <3>1, EventIsOne
    <3>5. pingCount[EventAt(c)] \in Nat
      BY <3>4 DEF PingInv, Functions
    <3> QED
      BY <2>1, <3>1, <3>2, <3>3, <3>4, <3>5
  <2>3. CASE x # c /\ y # c
    BY <1>1, <2>1, <2>3 DEF PingInv, CountsDiffer, SqlRecorded
  <2>4. CASE x = c
    BY <2>1, <2>2, <2>4
  <2>5. CASE y = c
    BY <2>1, <2>2, <2>5
  <2> QED
    BY <2>3, <2>4, <2>5
<1> QED
  BY <1>1, <1>2, <1>3 DEF PingInv

\* The statements that end a call without writing, and the first of each call.
LEMMA ReturnKeeps ==
  ASSUME PingInv, NEW c \in Calls, NEW kind, Return(c, kind), pc[c] \notin {"idle", "done"},
         kind # "recorded"
  PROVE  PingInv'
<1>1. /\ pc' = [pc EXCEPT ![c] = "done"] /\ reply' = [reply EXCEPT ![c] = kind]
      /\ held' = [held EXCEPT ![c] = {}] /\ owed' = [owed EXCEPT ![c] = {}]
      /\ UNCHANGED <<ended, req, pingCount, counters, count, popped>>
  BY DEF Return, Answer, Go
<1>2. OnlyCall(c) /\ Functions'
  BY <1>1 DEF OnlyCall, PingInv, Functions, Labels
<1>3. pc'[c] = "done" /\ reply'[c] = kind /\ held'[c] = {} /\ owed'[c] = {}
  BY <1>1 DEF PingInv, Functions
<1>4. CallOK(c)' /\ ~ SqlRecorded(c)'
  BY <1>1, <1>3 DEF PingInv, CallOK, At, SqlRecorded
<1> QED
  BY <1>2, <1>3, <1>4, OneCallStep

LEMMA StartKeeps ==
  ASSUME PingInv, NEW c \in Calls, NEW r \in Requests, Start(c, r)
  PROVE  PingInv'
<1>1. /\ pc[c] = "idle" /\ req' = [req EXCEPT ![c] = r]
      /\ pc' = [pc EXCEPT ![c] = IF r.op = "flush" THEN "scan" ELSE "session"]
      /\ UNCHANGED <<pingCount, ended, counters, held, count, owed, popped, reply>>
  BY DEF Start, Go, work
<1>2. OnlyCall(c) /\ Functions'
  BY <1>1 DEF OnlyCall, PingInv, Functions, Labels
<1>3. req'[c] = r /\ pc'[c] = IF r.op = "flush" THEN "scan" ELSE "session"
  BY <1>1 DEF PingInv, Functions
<1>4. /\ CallOK(c) /\ reply[c] = "none" /\ reply'[c] = "none" /\ held'[c] = {}
      /\ popped'[c] = popped[c] /\ owed'[c] = owed[c]
  BY <1>1 DEF PingInv, CallOK
<1>5. CallOK(c)' /\ ~ SqlRecorded(c)'
  <2>1. CASE r.op = "flush"
    BY <1>3, <1>4, <2>1 DEF CallOK, At, SqlRecorded
  <2>2. CASE r.op # "flush"
    BY <1>3, <1>4, <2>2 DEF CallOK, At, SqlRecorded
  <2> QED
    BY <2>1, <2>2
<1> QED
  BY <1>2, <1>3, <1>5, OneCallStep

-----------------------------------------------------------------------------
(* record_ping, record_ping_redis *)

LEMMA PingStepKeeps ==
  ASSUME PingInv, NEW c \in Calls, PingStep(c)
  PROVE  PingInv'
<1>0. Functions /\ CallOK(c) /\ (pc[c] # "idle" => req[c] \in Requests)
  BY DEF PingInv, CallOK
<1>1. CASE PingReadSession(c)
  <2>1. CASE Return(c, "rejected")
    BY <1>1, <2>1, ReturnKeeps DEF PingReadSession
  <2>2. CASE ~ Return(c, "rejected")
    <3>1. /\ pc[c] = "session" /\ req[c].session \in Sessions
          /\ pc' = [pc EXCEPT ![c] = IF req[c].op = "sql" THEN "update" ELSE "incr"]
          /\ UNCHANGED <<pingCount, ended, counters, req, held, count, owed, popped, reply>>
      BY <1>1, <2>2 DEF PingReadSession, Go, work
    <3>2. OnlyCall(c) /\ Functions'
      BY <1>0, <3>1 DEF OnlyCall, Functions, Labels
    <3>3. pc'[c] = IF req[c].op = "sql" THEN "update" ELSE "incr"
      BY <1>0, <3>1 DEF Functions
    <3>4. req[c].op \in {"sql", "redis"}
      BY <1>0, <3>1, RequestKinds DEF CallOK
    <3>5. CallOK(c)' /\ ~ SqlRecorded(c)'
      BY <1>0, <3>1, <3>3, <3>4 DEF CallOK, At, SqlRecorded
    <3> QED
      BY <3>2, <3>3, <3>5, OneCallStep
  <2> QED
    BY <2>1, <2>2
<1>2. CASE PingUpdate(c)
  <2>1. CASE Return(c, "failed")
    BY <1>2, <2>1, ReturnKeeps DEF PingUpdate
  <2>2. CASE ~ Return(c, "failed")
    <3>1. /\ pc[c] = "update" /\ Granted(c)
          /\ count' = [count EXCEPT ![c] = pingCount[EventAt(c)] + 1]
          /\ held' = [held EXCEPT ![c] = @ \cup Wanted(c)]
          /\ pc' = [pc EXCEPT ![c] = "commit"]
          /\ UNCHANGED <<pingCount, ended, counters, req, owed, popped, reply>>
      BY <1>2, <2>2 DEF PingUpdate, Take, Go
    <3>2. EventAt(c) \in Events /\ pingCount[EventAt(c)] \in Nat
      BY <1>0, <3>1, EventIsOne DEF Functions
    <3>3. OnlyCall(c) /\ Functions'
      BY <1>0, <3>1, <3>2 DEF OnlyCall, Functions, Labels
    <3>4. /\ pc'[c] = "commit" /\ count'[c] = pingCount[EventAt(c)] + 1
          /\ held'[c] = NoKeyUpdate("event", {EventAt(c)})
      BY <1>0, <3>1 DEF Functions, CallOK, Wanted
    <3>5. req[c].op = "sql" /\ req'[c] = req[c] /\ EventAt(c)' = EventAt(c)
      BY <1>0, <3>1 DEF CallOK, EventAt
    <3>6. CallOK(c)' /\ ~ SqlRecorded(c)'
      BY <1>0, <3>1, <3>2, <3>4, <3>5 DEF CallOK, At, SqlRecorded
    <3> QED
      BY <3>1, <3>3, <3>5, <3>6, GrantedAlone, OneCallStep
  <2> QED
    BY <2>1, <2>2
<1>3. CASE PingCommit(c)
  <2>1. /\ pc[c] = "commit" /\ req[c].op = "sql"
        /\ pingCount' = [pingCount EXCEPT ![EventAt(c)] = count[c]]
        /\ pc' = [pc EXCEPT ![c] = "done"]
        /\ held' = [held EXCEPT ![c] = {}] /\ owed' = [owed EXCEPT ![c] = {}]
        /\ \E kind \in {"recorded", "unanswered"} : reply' = [reply EXCEPT ![c] = kind]
        /\ UNCHANGED <<ended, counters, req, count, popped>>
    BY <1>3 DEF PingCommit, At, Answer, Go
  <2>2. EventAt(c) \in Events /\ count[c] \in Nat /\ req[c].session \in Sessions
    BY <1>0, <2>1, EventIsOne DEF CallOK
  <2>3. OnlyCall(c) /\ Functions'
    BY <1>0, <2>1, <2>2 DEF OnlyCall, Functions, Labels
  <2>4. /\ pc'[c] = "done" /\ held'[c] = {} /\ owed'[c] = {}
        /\ EventAt(c)' = EventAt(c) /\ pingCount'[EventAt(c)] = count[c]
    BY <1>0, <2>1, <2>2 DEF Functions, EventAt
  <2>5. CallOK(c)'
    BY <1>0, <2>1, <2>2, <2>4 DEF CallOK, At, SqlRecorded
  <2> QED
    BY <2>1, <2>3, <2>4, <2>5, OneCallStep
<1>4. CASE PingIncr(c)
  <2>1. /\ pc[c] = "incr"
        /\ counters' = [counters EXCEPT ![EventAt(c)] = @ + 1]
        /\ count' = [count EXCEPT ![c] = counters[EventAt(c)] + 1]
        /\ pc' = [pc EXCEPT ![c] = "done"]
        /\ held' = [held EXCEPT ![c] = {}] /\ owed' = [owed EXCEPT ![c] = {}]
        /\ \E kind \in {"failed", "recorded", "unanswered"} : reply' = [reply EXCEPT ![c] = kind]
        /\ UNCHANGED <<pingCount, ended, req, popped>>
    BY <1>4 DEF PingIncr, Answer, Go
  <2>2. EventAt(c) \in Events /\ counters[EventAt(c)] \in Nat /\ req[c].op = "redis"
    BY <1>0, <2>1, EventIsOne DEF CallOK, Functions
  <2>3. OnlyCall(c) /\ Functions'
    BY <1>0, <2>1, <2>2 DEF OnlyCall, Functions, Labels
  <2>4. pc'[c] = "done" /\ held'[c] = {} /\ owed'[c] = {}
    BY <1>0, <2>1 DEF Functions
  <2>5. CallOK(c)' /\ ~ SqlRecorded(c)'
    BY <1>0, <2>1, <2>2, <2>4 DEF CallOK, At, SqlRecorded
  <2> QED
    BY <2>3, <2>4, <2>5, OneCallStep
<1> QED
  BY <1>1, <1>2, <1>3, <1>4 DEF PingStep

-----------------------------------------------------------------------------
(* flush_counters *)

LEMMA FlushStepKeeps ==
  ASSUME PingInv, NEW c \in Calls, FlushStep(c)
  PROVE  PingInv'
<1>0. Functions /\ CallOK(c) /\ (pc[c] # "idle" => req[c] \in Requests)
  BY DEF PingInv, CallOK
<1>1. CASE FlushScan(c)
  <2>1. /\ pc[c] = "scan" /\ pc' = [pc EXCEPT ![c] = "take"]
        /\ owed' = [owed EXCEPT ![c] = {e \in Events : counters[e] > 0}]
        /\ UNCHANGED <<pingCount, ended, counters, req, held, count, popped, reply>>
    BY <1>1 DEF FlushScan, Go
  <2>2. OnlyCall(c) /\ Functions'
    BY <1>0, <2>1 DEF OnlyCall, Functions, Labels
  <2>3. pc'[c] = "take" /\ owed'[c] \subseteq Events
    BY <1>0, <2>1 DEF Functions
  <2>4. CallOK(c)' /\ ~ SqlRecorded(c)'
    BY <1>0, <2>1, <2>3 DEF CallOK, At, SqlRecorded
  <2> QED
    BY <2>2, <2>3, <2>4, OneCallStep
<1>2. ASSUME NEW e \in Events, FlushTake(c, e)
      PROVE  PingInv'
  <2>1. /\ pc[c] = "take" /\ counters[e] > 0 /\ counters[e] \in Nat
        /\ counters' = [counters EXCEPT ![e] = 0]
        /\ owed' = [d \in Calls |-> owed[d] \ {e}]
        /\ UNCHANGED <<pingCount, ended, req, held, count, reply>>
    BY <1>0, <1>2 DEF FlushTake, Functions
  <2>2. \/ /\ popped' = [popped EXCEPT ![c] = [event |-> e, delta |-> counters[e]]]
           /\ pc' = [pc EXCEPT ![c] = "write"]
        \/ pc' = pc /\ popped' = popped
    BY <1>2 DEF FlushTake, Go
  <2>3. OnlyCall(c) /\ Functions'
    BY <1>0, <2>1, <2>2 DEF OnlyCall, Functions, Labels
  <2>4. /\ pc'[c] \in {"take", "write"} /\ req[c].op = "flush" /\ owed'[c] \subseteq Events
        /\ \/ pc'[c] = "write" /\ popped'[c] = [event |-> e, delta |-> counters[e]]
           \/ pc'[c] = "take" /\ popped'[c] = popped[c]
    BY <1>0, <2>1, <2>2 DEF Functions, CallOK
  <2>5. /\ [event |-> e, delta |-> counters[e]] # None
        /\ [event |-> e, delta |-> counters[e]] \in [event : Events, delta : Nat]
        /\ [event |-> e, delta |-> counters[e]].delta > 0
    BY <2>1, PingsAssumption
  <2>6. popped'[c] # None =>
          popped'[c] \in [event : Events, delta : Nat] /\ popped'[c].delta > 0
    BY <1>0, <2>4, <2>5 DEF CallOK
  <2>7. CallOK(c)' /\ ~ SqlRecorded(c)'
    BY <1>0, <2>1, <2>4, <2>5, <2>6 DEF CallOK, At, SqlRecorded
  <2> QED
    BY <2>3, <2>4, <2>7, OneCallStep
<1>3. CASE FlushWrite(c)
  <2>1. /\ pc[c] = "write" /\ Granted(c)
        /\ count' = [count EXCEPT ![c] = pingCount[EventAt(c)] + popped[c].delta]
        /\ held' = [held EXCEPT ![c] = @ \cup Wanted(c)]
        /\ pc' = [pc EXCEPT ![c] = "commit"]
        /\ UNCHANGED <<pingCount, ended, counters, req, owed, popped, reply>>
    BY <1>3 DEF FlushWrite, Take, Go
  <2>2. EventAt(c) \in Events /\ pingCount[EventAt(c)] \in Nat
        /\ popped[c] # None /\ popped[c].delta \in Nat /\ popped[c].delta > 0
    BY <1>0, <2>1, EventIsOne DEF Functions, CallOK
  <2>3. OnlyCall(c) /\ Functions'
    BY <1>0, <2>1, <2>2 DEF OnlyCall, Functions, Labels
  <2>4. /\ pc'[c] = "commit" /\ count'[c] = pingCount[EventAt(c)] + popped[c].delta
        /\ held'[c] = NoKeyUpdate("event", {EventAt(c)})
    BY <1>0, <2>1 DEF Functions, CallOK, Wanted
  <2>5. req[c].op = "flush" /\ req'[c] = req[c] /\ EventAt(c)' = EventAt(c)
    BY <1>0, <2>1 DEF CallOK, EventAt
  <2>6. count'[c] \in Nat /\ count'[c] > pingCount'[EventAt(c)']
    BY <2>1, <2>2, <2>4, <2>5
  <2>7. CallOK(c)' /\ ~ SqlRecorded(c)'
    BY <1>0, <2>1, <2>2, <2>4, <2>5, <2>6 DEF CallOK, At, SqlRecorded
  <2> QED
    BY <2>1, <2>3, <2>5, <2>7, GrantedAlone, OneCallStep
<1>4. CASE FlushCommit(c)
  <2>1. /\ pc[c] = "commit" /\ req[c].op = "flush"
        /\ pingCount' = [pingCount EXCEPT ![EventAt(c)] = count[c]]
        /\ popped' = [popped EXCEPT ![c] = None]
        /\ held' = [held EXCEPT ![c] = {}]
        /\ UNCHANGED <<ended, counters, req, count>>
        /\ \/ pc' = [pc EXCEPT ![c] = "take"] /\ UNCHANGED <<owed, reply>>
           \/ /\ pc' = [pc EXCEPT ![c] = "done"]
              /\ owed' = [owed EXCEPT ![c] = {}] /\ reply' = [reply EXCEPT ![c] = "unanswered"]
    BY <1>4 DEF FlushCommit, At, Answer, Go
  <2>2. EventAt(c) \in Events /\ count[c] \in Nat
    BY <1>0, <2>1, EventIsOne DEF CallOK
  <2>3. OnlyCall(c) /\ Functions'
    BY <1>0, <2>1, <2>2 DEF OnlyCall, Functions, Labels
  <2>4. /\ held'[c] = {} /\ popped'[c] = None /\ req'[c] = req[c]
        /\ \/ pc'[c] = "take" /\ owed'[c] = owed[c] /\ reply'[c] = reply[c]
           \/ pc'[c] = "done" /\ owed'[c] = {} /\ reply'[c] = "unanswered"
    BY <1>0, <2>1 DEF Functions
  <2>5. CallOK(c)' /\ ~ SqlRecorded(c)'
    BY <1>0, <2>1, <2>4 DEF CallOK, At, SqlRecorded
  <2> QED
    BY <2>3, <2>4, <2>5, OneCallStep
<1>5. CASE FlushEnd(c)
  BY <1>5, ReturnKeeps DEF FlushEnd
<1> QED
  BY <1>1, <1>2, <1>3, <1>4, <1>5 DEF FlushStep

-----------------------------------------------------------------------------
(* The theorems about the rows. *)

LEMMA PingInitKeeps == Init => PingInv
BY DEF Init, PingInv, Functions, CallOK, OneWriter, CountsDiffer, SqlRecorded, Labels, At

LEMMA CallsRest ==
  ASSUME PingInv, ended' \subseteq Sessions,
         UNCHANGED <<pingCount, counters, req, pc, held, count, owed, popped, reply>>
  PROVE  PingInv'
<1>1. Functions'
  BY DEF PingInv, Functions
<1>2. \A c \in Calls : EventAt(c)' = EventAt(c) /\ (SqlRecorded(c)' <=> SqlRecorded(c))
  BY DEF EventAt, SqlRecorded
<1>3. ASSUME NEW c \in Calls
      PROVE  CallOK(c)'
  BY <1>2 DEF PingInv, CallOK, At
<1>4. OneWriter' /\ CountsDiffer'
  BY <1>2 DEF PingInv, OneWriter, CountsDiffer
<1> QED
  BY <1>1, <1>3, <1>4 DEF PingInv

LEMMA PingNextKeeps == PingInv /\ [Next]_vars => PingInv'
<1> SUFFICES ASSUME PingInv, [Next]_vars
             PROVE  PingInv'
  OBVIOUS
<1>1. ASSUME NEW c \in Calls, Crash(c)
      PROVE  PingInv'
  BY <1>1, ReturnKeeps DEF Crash
<1>2. ASSUME NEW x \in Sessions, EndSession(x)
      PROVE  PingInv'
  BY <1>2, CallsRest DEF EndSession, work, PingInv, Functions
<1>3. CASE UNCHANGED vars
  BY <1>3, CallsRest DEF vars, work, PingInv, Functions
<1>4. Finished => UNCHANGED vars
  BY DEF Finished
<1> QED
  BY <1>1, <1>2, <1>3, <1>4, StartKeeps, PingStepKeeps, FlushStepKeeps DEF Next

LEMMA PingInvHolds == Spec => []PingInv
BY PingInitKeeps, PingNextKeeps, PTL DEF Spec

\* Every variable of Pings keeps its type, and no flush writes what it has not
\* popped.
THEOREM PingTypes == Spec => []TypeOK
BY PingInvTypes, PingInvHolds, PTL

\* Concurrent calls of record_ping and flush_counters lose no update of a row:
\* any two pings recorded on one event were told different counts.
THEOREM NoLostUpdate == Spec => []CountsDiffer
<1>1. PingInv => CountsDiffer
  BY DEF PingInv
<1> QED
  BY <1>1, PingInvHolds, PTL

-----------------------------------------------------------------------------
(* The pools. *)

InCommand == {"incr", "scan", "take"}
InTx      == {"update", "incr", "write", "commit"}

PoolInv ==
  /\ size \in Sizes
  /\ db \subseteq Calls /\ IsFiniteSet(db) /\ Cardinality(db) <= size.db
  /\ \A c \in db : pc[c] \in InTx
  /\ client \in clients \cup {None} /\ clients \subseteq Calls \cup {Main}
  /\ DOMAIN uses = Calls /\ DOMAIN line = Calls
  /\ \A c \in Calls : /\ uses[c] \in clients \cup {None}
                      /\ line[c] # None => line[c] = uses[c] /\ pc[c] \in InCommand

LEMMA Returned ==
  ASSUME NEW c, NEW kind, Return(c, kind), DOMAIN pc = Calls, c \in Calls
  PROVE  pc'[c] = "done" /\ \A d \in Calls \ {c} : pc'[d] = pc[d]
BY DEF Return, Answer, Go

\* Of the pools, a step that only moves c's place in its operation can disturb
\* nothing but what is c's.
LEMMA PlaceMoves ==
  ASSUME PoolInv, NEW c \in Calls, \A d \in Calls \ {c} : pc'[d] = pc[d],
         UNCHANGED <<size, client, clients>>,
         db' \subseteq db, c \in db' => pc'[c] \in InTx,
         DOMAIN uses' = Calls /\ DOMAIN line' = Calls,
         \A d \in Calls \ {c} : uses'[d] = uses[d] /\ line'[d] = line[d],
         uses'[c] \in clients \cup {None},
         line'[c] # None => line'[c] = uses'[c] /\ pc'[c] \in InCommand
  PROVE  PoolInv'
<1>1. IsFiniteSet(db') /\ Cardinality(db') <= Cardinality(db)
      /\ Cardinality(db') \in Nat /\ Cardinality(db) \in Nat
  BY FS_Subset, FS_CardinalityType DEF PoolInv
<1>2. Cardinality(db') <= size'.db
  BY <1>1, PoolsAssumption DEF PoolInv
<1>3. \A d \in db' : pc'[d] \in InTx
  BY DEF PoolInv
<1> QED
  BY <1>1, <1>2, <1>3 DEF PoolInv

LEMMA GivesBack ==
  ASSUME PoolInv, NEW c \in Calls, \A d \in Calls \ {c} : pc'[d] = pc[d], GiveBack(c)
  PROVE  PoolInv'
<1>1. /\ UNCHANGED <<size, client, clients>> /\ db' = db \ {c}
      /\ uses' = [uses EXCEPT ![c] = None] /\ line' = [line EXCEPT ![c] = None]
  BY DEF GiveBack
<1>2. uses'[c] = None /\ line'[c] = None
  BY <1>1 DEF PoolInv
<1> QED
  BY <1>1, <1>2, PlaceMoves DEF PoolInv

LEMMA ChecksOut ==
  ASSUME PoolInv, NEW c \in Calls, DbFree, \A d \in Calls \ {c} : pc'[d] = pc[d],
         pc'[c] \in InTx, line[c] = None, db' = db \cup {c}, UNCHANGED <<size, redisVars>>
  PROVE  PoolInv'
<1>1. IsFiniteSet(db') /\ Cardinality(db') <= Cardinality(db) + 1
      /\ Cardinality(db) \in Nat /\ Cardinality(db') \in Nat
  <2>1. IsFiniteSet(db)
    BY DEF PoolInv
  <2>2. /\ IsFiniteSet(db \cup {c})
        /\ Cardinality(db \cup {c}) = IF c \in db THEN Cardinality(db) ELSE Cardinality(db) + 1
    BY <2>1, FS_AddElement
  <2>3. Cardinality(db) \in Nat
    BY <2>1, FS_CardinalityType
  <2> QED
    BY <2>2, <2>3
<1>2. Cardinality(db') <= size'.db
  BY <1>1, PoolsAssumption DEF PoolInv, DbFree
<1> QED
  BY <1>1, <1>2 DEF PoolInv, redisVars

\* Every step keeps the pools and is a step of Pings or none.
LEMMA PooledNextKeeps ==
  ASSUME PingInv, PoolInv, [PooledNext]_<<vars, poolVars>>
  PROVE  PoolInv' /\ [Next]_vars
<1>0. DOMAIN pc = Calls
  BY DEF PingInv, Functions
<1>1. ASSUME NEW c \in Calls, NEW r \in Requests, Start(c, r), UNCHANGED poolVars
      PROVE  PoolInv' /\ Next
  <2>1. pc[c] = "idle" /\ (\A d \in Calls \ {c} : pc'[d] = pc[d])
    BY <1>0, <1>1 DEF Start, Go
  <2>2. c \notin db /\ line[c] = None
    BY <2>1 DEF PoolInv, InTx, InCommand
  <2>3. PoolInv'
    BY <1>1, <2>1, <2>2, PlaceMoves DEF poolVars, redisVars, PoolInv
  <2> QED
    BY <1>1, <2>3 DEF Next
<1>2. ASSUME NEW c \in Calls, PooledRead(c)
      PROVE  PoolInv' /\ Next
  <2>1. /\ pc[c] = "session" /\ c \notin db /\ DbFree
        /\ \A d \in Calls \ {c} : pc'[d] = pc[d]
        /\ pc'[c] \in {"update", "incr", "done"}
    BY <1>0, <1>2 DEF PooledRead, WantsDb, PingReadSession, Return, Answer, Go
  <2>2. line[c] = None
    BY <2>1 DEF PoolInv, InCommand
  <2>3. ASSUME pc'[c] = "done"
        PROVE  PoolInv'
    <3>1. UNCHANGED <<size, client, clients, uses, line>> /\ db' = db
      BY <1>2, <2>3 DEF PooledRead, redisVars
    <3> QED
      BY <2>1, <2>2, <3>1, PlaceMoves DEF PoolInv
  <2>4. ASSUME pc'[c] # "done"
        PROVE  PoolInv'
    <3>1. UNCHANGED <<size, redisVars>> /\ db' = db \cup {c}
      BY <1>2, <2>4 DEF PooledRead
    <3>2. pc'[c] \in InTx
      BY <2>1, <2>4 DEF InTx
    <3> QED
      BY <2>1, <2>2, <3>1, <3>2, ChecksOut
  <2> QED
    BY <1>2, <2>3, <2>4 DEF PooledRead, Next, PingStep
<1>3. ASSUME NEW c \in Calls, DbCheckout(c)
      PROVE  PoolInv' /\ UNCHANGED vars
  <2>1. pc' = pc /\ pc[c] = "write" /\ DbFree /\ db' = db \cup {c} /\ UNCHANGED <<size, redisVars>>
    BY <1>3 DEF DbCheckout, vars
  <2>2. line[c] = None
    BY <2>1 DEF PoolInv, InCommand
  <2> QED
    BY <1>3, <2>1, <2>2, ChecksOut DEF DbCheckout, InTx
<1>4. ASSUME NEW c \in Calls, DbWork(c)
      PROVE  PoolInv' /\ Next
  <2>1. /\ c \in db /\ pc[c] \in {"update", "commit", "write"}
        /\ \A d \in Calls \ {c} : pc'[d] = pc[d]
        /\ pc'[c] \in {"commit", "done", "take"}
    BY <1>0, <1>4 DEF DbWork, PingUpdate, PingCommit, FlushWrite, FlushCommit, At, Return,
       Answer, Go
  <2>2. line[c] = None
    BY <2>1 DEF PoolInv, InCommand
  <2>3. ASSUME pc'[c] = "commit"
        PROVE  PoolInv'
    <3>1. UNCHANGED <<size, db, client, clients, uses, line>>
      BY <1>4, <2>3 DEF DbWork, poolVars, redisVars
    <3>2. pc'[c] \in InTx
      BY <2>3 DEF InTx
    <3> QED
      BY <2>1, <2>2, <3>1, <3>2, PlaceMoves DEF PoolInv
  <2>4. ASSUME pc'[c] = "done"
        PROVE  PoolInv'
    <3>1. GiveBack(c)
      BY <1>4, <2>4 DEF DbWork
    <3> QED
      BY <2>1, <3>1, GivesBack
  <2>5. ASSUME pc'[c] = "take"
        PROVE  PoolInv'
    <3>1. UNCHANGED <<size, client, clients, uses, line>> /\ db' = db \ {c}
      BY <1>4, <2>5 DEF DbWork, redisVars
    <3> QED
      BY <2>1, <2>2, <3>1, PlaceMoves DEF PoolInv
  <2> QED
    BY <1>4, <2>1, <2>3, <2>4, <2>5 DEF DbWork, Next, PingStep, FlushStep
<1>5. ASSUME NEW c \in Calls, GetClient(c) \/ NoClient(c) \/ InitRedis(c) \/ RedisBorrow(c)
      PROVE  PoolInv' /\ UNCHANGED vars
  <2>0. pc' = pc /\ UNCHANGED vars
    BY <1>5 DEF GetClient, NoClient, InitRedis, RedisBorrow, vars
  <2>1. CASE GetClient(c)
    BY <2>0, <2>1 DEF GetClient, WantsClient, PoolInv
  <2>2. CASE NoClient(c)
    BY <2>0, <2>2 DEF NoClient, PoolInv
  <2>3. CASE InitRedis(c)
    BY <2>0, <2>3 DEF InitRedis, PoolInv
  <2>4. CASE RedisBorrow(c)
    BY <2>0, <2>4 DEF RedisBorrow, WantsRedis, PoolInv, InCommand
  <2> QED
    BY <1>5, <2>0, <2>1, <2>2, <2>3, <2>4
<1>6. ASSUME NEW c \in Calls, RedisWork(c)
      PROVE  PoolInv' /\ [Next]_vars
  <2>1. CASE PingIncr(c) /\ GiveBack(c)
    <3>1. \A d \in Calls \ {c} : pc'[d] = pc[d]
      BY <1>0, <2>1 DEF PingIncr, Answer, Go
    <3> QED
      BY <2>1, <3>1, GivesBack DEF Next, PingStep
  <2>2. CASE ~ (PingIncr(c) /\ GiveBack(c))
    <3>1. /\ line' = [line EXCEPT ![c] = None]
          /\ UNCHANGED <<size, db, client, clients, building, uses>>
          /\ FlushScan(c) \/ (\E e \in Events : FlushTake(c, e)) \/ (pc[c] = "take" /\ UNCHANGED vars)
      BY <1>6, <2>2 DEF RedisWork
    <3>2. pc[c] \in {"scan", "take"} /\ \A d \in Calls \ {c} : pc'[d] = pc[d]
      BY <1>0, <3>1 DEF FlushScan, FlushTake, Go, vars
    <3>3. c \notin db
      BY <3>2 DEF PoolInv, InTx
    <3>4. PoolInv'
      BY <3>1, <3>2, <3>3, PlaceMoves DEF PoolInv
    <3> QED
      BY <3>1, <3>4 DEF Next, FlushStep
  <2> QED
    BY <2>1, <2>2
<1>7. ASSUME NEW c \in Calls, PooledEnd(c) \/ PoolTimeout(c) \/ (Crash(c) /\ GiveBack(c))
      PROVE  PoolInv' /\ Next
  <2>1. GiveBack(c) /\ (FlushEnd(c) \/ Crash(c))
    BY <1>7 DEF PooledEnd, PoolTimeout
  <2>2. \A d \in Calls \ {c} : pc'[d] = pc[d]
    BY <1>0, <2>1, Returned DEF FlushEnd, Crash
  <2> QED
    BY <2>1, <2>2, GivesBack DEF Next, FlushStep
<1>8. ASSUME UNCHANGED poolVars, pc' = pc
      PROVE  PoolInv'
  BY <1>8 DEF PoolInv, poolVars, redisVars
<1>9. ASSUME NEW x \in Sessions, EndSession(x), UNCHANGED poolVars
      PROVE  PoolInv' /\ Next
  BY <1>8, <1>9 DEF EndSession, Next
<1>10. CASE UNCHANGED <<vars, poolVars>>
  BY <1>8, <1>10 DEF vars
<1>11. CASE Finished /\ UNCHANGED poolVars
  BY <1>8, <1>11 DEF Finished, vars, Next
<1> QED
  BY <1>1, <1>2, <1>3, <1>4, <1>5, <1>6, <1>7, <1>9, <1>10, <1>11 DEF PooledNext

LEMMA PooledInitKeeps == PooledInit => PingInv /\ PoolInv /\ Init
<1> SUFFICES ASSUME PooledInit
             PROVE  PingInv /\ PoolInv
  BY DEF PooledInit
<1>1. IsFiniteSet({}) /\ Cardinality({}) = 0
  BY FS_EmptySet
<1>2. size.db \in Nat /\ size \in Sizes
  BY PoolsAssumption DEF PooledInit
<1> QED
  BY <1>1, <1>2, PingInitKeeps DEF PooledInit, PoolInv

LEMMA PooledInvHolds == PooledSpec => [](PingInv /\ PoolInv)
<1>1. PingInv /\ PoolInv /\ [PooledNext]_<<vars, poolVars>> => (PingInv /\ PoolInv)'
  BY PooledNextKeeps, PingNextKeeps
<1> QED
  BY <1>1, PooledInitKeeps, PTL DEF PooledSpec

\* Whatever the sizes of the pools, and whoever builds the Redis client, what
\* happens to the counters is what Pings allows.
THEOREM PoolsImplementPings == PooledSpec => Spec
<1>1. PooledInit => Init
  BY DEF PooledInit
<1>2. PingInv /\ PoolInv /\ [PooledNext]_<<vars, poolVars>> => [Next]_vars
  BY PooledNextKeeps
<1> QED
  BY <1>1, <1>2, PooledInvHolds, PTL DEF PooledSpec, Spec

\* Connections are out only to calls in the middle of a transaction or of a
\* command of Redis, never more of the database's than there are.
THEOREM ConnectionsComeBack == PooledSpec => []PoolsOK
<1>1. PoolInv => PoolsOK
  BY DEF PoolInv, PoolsOK, InTx, InCommand
<1> QED
  BY <1>1, PooledInvHolds, PTL

\* No set of calls waits for itself, through the pools or the rows.
LEMMA SomebodyGoesOn == PingInv /\ PoolInv => NoCircle
<1> SUFFICES ASSUME PingInv, PoolInv, NEW S \in (SUBSET Calls) \ {{}},
                    \A c \in S : CannotGoOn(c, S)
             PROVE  FALSE
  BY DEF NoCircle
<1>0. Cardinality({}) = 0 /\ size.db \in Nat \ {0} /\ size.redis \in Nat \ {0}
  BY FS_EmptySet, PoolsAssumption DEF PoolInv
<1>1. ASSUME NEW c \in S, c \in db, pc[c] \notin {"incr", "update", "write"}
      PROVE  FALSE
  <2>1. pc[c] = "commit" /\ Wanted(c) = {}
    BY <1>1 DEF PoolInv, InTx, Wanted
  <2>2. Holders(held, c, Wanted(c)) = {}
    BY <2>1 DEF Holders
  <2> QED
    BY <1>1, <2>1, <2>2 DEF CannotGoOn, WantsDb, WantsRedis
<1>2. ASSUME NEW c \in S, Holders(held, c, Wanted(c)) \cap S # {}
      PROVE  FALSE
  <2>1. PICK d \in S : d \in Holders(held, c, Wanted(c))
    BY <1>2
  <2>2. pc[d] = "commit"
    BY <2>1 DEF Holders, PingInv, CallOK
  <2>3. Holders(held, d, Wanted(d)) = {}
    BY <2>2 DEF Holders, Wanted
  <2> QED
    BY <2>2, <2>3 DEF CannotGoOn, WantsDb, WantsRedis
<1>3. ASSUME NEW c \in S, line[c] # None
      PROVE  FALSE
  <2>1. pc[c] \in InCommand
    BY <1>3 DEF PoolInv
  <2> QED
    BY <1>2, <1>3, <2>1 DEF CannotGoOn, WantsDb, WantsRedis, InCommand
<1>4. ASSUME NEW c \in S, WantsRedis(c), ~ RedisFree(uses[c]), Borrowed(uses[c]) \subseteq S
      PROVE  FALSE
  <2>1. Borrowed(uses[c]) # {}
    <3>1. Borrowed(uses[c]) = {} => Cardinality(Borrowed(uses[c])) = 0
      BY <1>0
    <3>2. 0 < size.redis
      BY <1>0
    <3> QED
      BY <1>4, <3>1, <3>2 DEF RedisFree
  <2>2. PICK d \in Borrowed(uses[c]) : TRUE
    BY <2>1
  <2>3. d \in S /\ line[d] # None
    BY <1>4, <2>2 DEF Borrowed, WantsRedis
  <2> QED
    BY <1>3, <2>3
<1>5. ASSUME NEW c \in S, WantsDb(c), ~ DbFree, db \subseteq S
      PROVE  FALSE
  <2>1. db # {}
    <3>1. db = {} => Cardinality(db) = 0
      BY <1>0
    <3>2. 0 < size.db
      BY <1>0
    <3> QED
      BY <1>5, <3>1, <3>2 DEF DbFree
  <2>2. PICK d \in db : d \in S
    BY <1>5, <2>1
  <2>3. ~ WantsDb(d)
    BY <2>2 DEF WantsDb
  <2> QED
    BY <1>2, <1>4, <2>2, <2>3 DEF CannotGoOn
<1>6. PICK c \in S : CannotGoOn(c, S)
  OBVIOUS
<1> QED
  BY <1>2, <1>4, <1>5, <1>6 DEF CannotGoOn

\* However many calls share however few connections, nobody waits in a circle:
\* what the timeouts of the pools break up is congestion, never a deadlock.
THEOREM NobodyWaitsInCircle == PooledSpec => []NoCircle
BY SomebodyGoesOn, PooledInvHolds, PTL

-----------------------------------------------------------------------------
(* Where the pings are. *)

Result  == [event : Events, delta : Nat, persisted : BOOLEAN]
Adds(c) == IF req[c].op = "flush" THEN popped[c].delta ELSE 1

\* What a call has in its hands, and what its UPDATE has added to the row it holds.
OnHand(c) ==
  /\ pc[c] \in {"idle", "session", "update", "incr"} => count[c] = None
  /\ pc[c] \notin {"write", "commit", "done"} => popped[c] = None
  /\ results[c] \in Seq(Result)
  /\ pc[c] = "commit" => count[c] = pingCount[EventAt(c)] + Adds(c)

Finite(e) == IsFiniteSet(Counted(e)) /\ IsFiniteSet(InHand(e)) /\ IsFiniteSet(Skipped(e))
Balanced(e) ==
  /\ Finite(e)
  /\ Cardinality(Counted(e)) = pingCount[e] + counters[e]
       + Cardinality(InHand(e)) + Cardinality(Skipped(e))

Conserving ==
  /\ DOMAIN results = Calls
  /\ \A c \in Calls : OnHand(c)
  /\ \A e \in Events : Balanced(e)

\* What is in those sets, before a step and after it.
InHandForm ==
  \A e, x : x \in InHand(e) <=>
    \E c \in Calls : popped[c] # None /\ popped[c].event = e /\ x \in {c} \X (1 .. popped[c].delta)

SkippedForm ==
  \A e, x : x \in Skipped(e) <=>
    \E c \in Calls : \E i \in SkippedAt(c, e) : x \in {<<c, i>>} \X (1 .. results[c][i].delta)

LEMMA FormsNow == InHandForm /\ SkippedForm
BY DEF InHandForm, SkippedForm, InHand, Skipped

LEMMA FormsNext == InHandForm' /\ SkippedForm'
BY FormsNow, PTL

\* A block of n pings.
LEMMA BlockSize ==
  ASSUME NEW x, NEW n \in Nat
  PROVE  IsFiniteSet({x} \X (1 .. n)) /\ Cardinality({x} \X (1 .. n)) = n
<1>1. IsFiniteSet({x}) /\ Cardinality({x}) = 1
  BY FS_Singleton
<1>2. IsFiniteSet(1 .. n) /\ Cardinality(1 .. n) = n
  <2>1. /\ IsFiniteSet(1 .. n)
        /\ Cardinality(1 .. n) = IF 1 > n THEN 0 ELSE n - 1 + 1
    BY FS_Interval
  <2> QED
    BY <2>1
<1>3. /\ IsFiniteSet({x} \X (1 .. n))
      /\ Cardinality({x} \X (1 .. n)) = Cardinality({x}) * Cardinality(1 .. n)
  BY <1>1, <1>2, FS_Product
<1> QED
  BY <1>1, <1>2, <1>3

\* T is S and a block of n pings more.
Joins(T, S, x, n) == T = S \cup ({x} \X (1 .. n)) /\ S \cap ({x} \X (1 .. n)) = {}

LEMMA BlockAdds ==
  ASSUME NEW S, IsFiniteSet(S), NEW B, IsFiniteSet(B), S \cap B = {}
  PROVE  /\ IsFiniteSet(S \cup B) /\ Cardinality(S \cup B) = Cardinality(S) + Cardinality(B)
         /\ Cardinality(S) \in Nat /\ Cardinality(B) \in Nat
<1>1. Cardinality(S) \in Nat /\ Cardinality(B) \in Nat
  BY FS_CardinalityType
<1>2. /\ IsFiniteSet(S \cup B)
      /\ Cardinality(S \cup B) = Cardinality(S) + Cardinality(B) - Cardinality(S \cap B)
  BY FS_Union
<1>3. Cardinality(S \cap B) = 0
  BY FS_EmptySet
<1> QED
  BY <1>1, <1>2, <1>3

LEMMA BlockJoins ==
  ASSUME NEW S, IsFiniteSet(S), NEW x, NEW n \in Nat, NEW T, Joins(T, S, x, n)
  PROVE  /\ IsFiniteSet(T) /\ Cardinality(T) = Cardinality(S) + n
         /\ Cardinality(S) \in Nat
<1> DEFINE B == {x} \X (1 .. n)
<1>1. IsFiniteSet(B) /\ Cardinality(B) = n
  BY BlockSize
<1>2. T = S \cup B /\ S \cap B = {}
  BY DEF Joins
<1> HIDE DEF B
<1> QED
  BY <1>1, <1>2, BlockAdds

\* A call that has not ended does not count yet.
LEMMA NotYet ==
  ASSUME PingInv, NEW c \in Calls, OnHand(c), pc[c] # "done"
  PROVE  ~ Counts(c)
<1>1. CallOK(c) /\ reply[c] = "none"
  BY DEF PingInv, CallOK
<1>2. CASE req[c] # None /\ req[c].op # "flush" /\ count[c] # None /\ req[c].op # "sql"
  <2>1. pc[c] \notin {"idle", "session", "update", "incr"}
    BY <1>2 DEF OnHand
  <2>2. pc[c] \in Labels
    BY DEF PingInv, Functions
  <2> QED
    BY <1>1, <1>2, <2>1, <2>2 DEF CallOK, Labels
<1> QED
  BY <1>1, <1>2 DEF Counts

\* Of the other calls.
OthersKept(c) ==
  \A d \in Calls \ {c} : req'[d] = req[d] /\ count'[d] = count[d] /\ reply'[d] = reply[d]

LEMMA OthersCount ==
  ASSUME NEW c \in Calls, OthersKept(c), NEW d \in Calls \ {c}, NEW e
  PROVE  (d \in Counted(e))' <=> d \in Counted(e)
<1>1. req'[d] = req[d] /\ count'[d] = count[d] /\ reply'[d] = reply[d]
  BY DEF OthersKept
<1>2. Counts(d)' <=> Counts(d)
  BY <1>1 DEF Counts
<1>3. Counts(d) => EventAt(d)' = EventAt(d)
  BY <1>1 DEF Counts, EventAt
<1> QED
  BY <1>2, <1>3 DEF Counted

LEMMA CountedStays ==
  ASSUME NEW c \in Calls, OthersKept(c), ~ Counts(c), ~ Counts(c)', NEW e
  PROVE  Counted(e)' = Counted(e)
<1>1. \A d : d \in Counted(e)' <=> d \in Counted(e)
  <2>1. \A d \in Calls \ {c} : d \in Counted(e)' <=> d \in Counted(e)
    BY OthersCount
  <2>2. c \notin Counted(e) /\ c \notin Counted(e)'
    BY DEF Counted
  <2>3. Counted(e) \subseteq Calls /\ Counted(e)' \subseteq Calls
    BY DEF Counted
  <2> QED
    BY <2>1, <2>2, <2>3
<1>2. Counted(e)' \subseteq Counted(e) /\ Counted(e) \subseteq Counted(e)'
  BY <1>1
<1> QED
  BY <1>2

LEMMA CountedGains ==
  ASSUME NEW c \in Calls, OthersKept(c), ~ Counts(c), Counts(c)', NEW e
  PROVE  /\ EventAt(c)' = e => Counted(e)' = Counted(e) \cup {c}
         /\ EventAt(c)' # e => Counted(e)' = Counted(e)
         /\ c \notin Counted(e)
<1>1. \A d \in Calls \ {c} : d \in Counted(e)' <=> d \in Counted(e)
  BY OthersCount
<1>2. c \notin Counted(e) /\ (c \in Counted(e)' <=> EventAt(c)' = e)
  BY DEF Counted
<1>3. Counted(e) \subseteq Calls /\ Counted(e)' \subseteq Calls
  BY DEF Counted
<1>4. CASE EventAt(c)' = e
  <2>1. Counted(e)' \subseteq Counted(e) \cup {c} /\ Counted(e) \cup {c} \subseteq Counted(e)'
    BY <1>1, <1>2, <1>3, <1>4
  <2> QED
    BY <1>2, <1>4, <2>1
<1>5. CASE EventAt(c)' # e
  <2>1. Counted(e)' \subseteq Counted(e) /\ Counted(e) \subseteq Counted(e)'
    BY <1>1, <1>2, <1>3, <1>5
  <2> QED
    BY <1>2, <1>5, <2>1
<1> QED
  BY <1>4, <1>5

LEMMA HandStays ==
  ASSUME popped' = popped, NEW e
  PROVE  InHand(e)' = InHand(e)
BY DEF InHand

LEMMA SkippedStays ==
  ASSUME results' = results, NEW e
  PROVE  Skipped(e)' = Skipped(e)
BY DEF Skipped, SkippedAt

\* S is what P has in hand of e.
InHands(S, P, e) ==
  \A x : x \in S <=> \E d \in Calls : P[d] # None /\ P[d].event = e /\ x \in {d} \X (1 .. P[d].delta)

LEMMA HandsNow == ASSUME NEW e PROVE InHands(InHand(e), popped, e)
BY FormsNow DEF InHandForm, InHands

LEMMA HandsNext == ASSUME NEW e PROVE InHands(InHand(e)', popped', e)
BY FormsNext DEF InHandForm, InHands

\* One block more in c's hands; read backwards, one less.
LEMMA HandMoves ==
  ASSUME NEW c \in Calls, NEW P, NEW Q, DOMAIN P = Calls, DOMAIN Q = Calls,
         \A d \in Calls \ {c} : Q[d] = P[d], P[c] = None, Q[c] # None, NEW e,
         NEW S, InHands(S, P, e), NEW T, InHands(T, Q, e)
  PROVE  /\ Q[c].event = e => Joins(T, S, c, Q[c].delta)
         /\ Q[c].event # e => T = S
<1> USE DEF InHands
<1>1. \A x \in S : \E d \in Calls \ {c} : /\ P[d] # None /\ P[d].event = e
                                          /\ x \in {d} \X (1 .. P[d].delta)
  OBVIOUS
<1>2. S \subseteq T
  BY <1>1
<1>3. \A x \in T : x \in S \/ (Q[c].event = e /\ x \in {c} \X (1 .. Q[c].delta))
  <2>1. ASSUME NEW x \in T
        PROVE  x \in S \/ (Q[c].event = e /\ x \in {c} \X (1 .. Q[c].delta))
    <3>1. PICK d \in Calls : Q[d] # None /\ Q[d].event = e /\ x \in {d} \X (1 .. Q[d].delta)
      OBVIOUS
    <3>2. CASE d = c
      BY <3>1, <3>2
    <3>3. CASE d # c
      BY <3>1, <3>3
    <3> QED
      BY <3>2, <3>3
  <2> QED
    BY <2>1
<1>4. Q[c].event = e => {c} \X (1 .. Q[c].delta) \subseteq T
  OBVIOUS
<1>5. S \cap ({c} \X (1 .. Q[c].delta)) = {}
  <2>1. \A x \in S : x[1] # c
    BY <1>1
  <2>2. \A x \in {c} \X (1 .. Q[c].delta) : x[1] = c
    OBVIOUS
  <2> QED
    BY <2>1, <2>2
<1>6. Q[c].event = e =>
        T \subseteq S \cup ({c} \X (1 .. Q[c].delta)) /\ S \cup ({c} \X (1 .. Q[c].delta)) \subseteq T
  BY <1>2, <1>3, <1>4
<1>7. Q[c].event # e => T \subseteq S /\ S \subseteq T
  BY <1>2, <1>3
<1> QED
  BY <1>5, <1>6, <1>7 DEF Joins

\* One entry more in what a flush will return.
LEMMA SkippedMoves ==
  ASSUME NEW c \in Calls, DOMAIN results = Calls, results[c] \in Seq(Result), NEW r \in Result,
         results' = [results EXCEPT ![c] = Append(@, r)], NEW e
  PROVE  /\ r.event = e /\ ~ r.persisted =>
              \E k : Joins(Skipped(e)', Skipped(e), <<c, k>>, r.delta)
         /\ ~ (r.event = e /\ ~ r.persisted) => Skipped(e)' = Skipped(e)
<1>1. PICK k : k = Len(results[c]) + 1
  OBVIOUS
<1>2. /\ DOMAIN results'[c] = DOMAIN results[c] \cup {k} /\ k \notin DOMAIN results[c]
      /\ results'[c][k] = r /\ \A i \in DOMAIN results[c] : results'[c][i] = results[c][i]
      /\ \A d \in Calls \ {c} : results'[d] = results[d]
  BY <1>1
<1>3. PICK new : new = (r.event = e /\ ~ r.persisted)
  OBVIOUS
<1>4. /\ \A d \in Calls \ {c} : SkippedAt(d, e)' = SkippedAt(d, e)
      /\ \A i : i \in SkippedAt(c, e)' <=> i \in SkippedAt(c, e) \/ (i = k /\ new)
      /\ SkippedAt(c, e) \subseteq DOMAIN results[c]
  <2>1. ASSUME NEW d \in Calls \ {c}
        PROVE  SkippedAt(d, e)' = SkippedAt(d, e)
    BY <1>2 DEF SkippedAt
  <2>2. \A i : i \in SkippedAt(c, e)' <=> i \in SkippedAt(c, e) \/ (i = k /\ new)
    BY <1>2, <1>3 DEF SkippedAt
  <2> QED
    BY <2>1, <2>2 DEF SkippedAt
<1>5. \A x : x \in Skipped(e)' <=>
        \E d \in Calls : \E i \in SkippedAt(d, e)' : x \in {<<d, i>>} \X (1 .. results'[d][i].delta)
  BY FormsNext DEF SkippedForm
<1>6. \A x : x \in Skipped(e) <=>
        \E d \in Calls : \E i \in SkippedAt(d, e) : x \in {<<d, i>>} \X (1 .. results[d][i].delta)
  BY FormsNow DEF SkippedForm
<1>7. \A x \in Skipped(e) : x \in Skipped(e)'
  <2>1. ASSUME NEW x \in Skipped(e)
        PROVE  x \in Skipped(e)'
    <3>1. PICK d \in Calls : \E i \in SkippedAt(d, e) : x \in {<<d, i>>} \X (1 .. results[d][i].delta)
      BY <1>6
    <3>2. PICK i \in SkippedAt(d, e) : x \in {<<d, i>>} \X (1 .. results[d][i].delta)
      BY <3>1
    <3>3. i \in SkippedAt(d, e)' /\ results'[d][i] = results[d][i]
      BY <1>2, <1>4
    <3> QED
      BY <1>5, <3>2, <3>3
  <2> QED
    BY <2>1
<1>8. new => {<<c, k>>} \X (1 .. r.delta) \subseteq Skipped(e)'
  <2>1. new => k \in SkippedAt(c, e)' /\ results'[c][k] = r
    BY <1>2, <1>4
  <2> QED
    BY <1>5, <2>1
<1>9. \A x \in Skipped(e)' : x \in Skipped(e) \/ (new /\ x \in {<<c, k>>} \X (1 .. r.delta))
  <2>1. ASSUME NEW x \in Skipped(e)'
        PROVE  x \in Skipped(e) \/ (new /\ x \in {<<c, k>>} \X (1 .. r.delta))
    <3>1. PICK d \in Calls : \E i \in SkippedAt(d, e)' : x \in {<<d, i>>} \X (1 .. results'[d][i].delta)
      BY <1>5
    <3>2. PICK i \in SkippedAt(d, e)' : x \in {<<d, i>>} \X (1 .. results'[d][i].delta)
      BY <3>1
    <3>3. CASE i \in SkippedAt(d, e)
      <4>1. results'[d][i] = results[d][i]
        BY <1>2, <1>4, <3>3
      <4> QED
        BY <1>6, <3>2, <3>3, <4>1
    <3>4. CASE i \notin SkippedAt(d, e)
      <4>1. d = c /\ i = k /\ new
        BY <1>4, <3>2, <3>4
      <4> QED
        BY <1>2, <3>2, <4>1
    <3> QED
      BY <3>3, <3>4
  <2> QED
    BY <2>1
<1>10. Skipped(e) \cap ({<<c, k>>} \X (1 .. r.delta)) = {}
  <2>1. ASSUME NEW x \in Skipped(e)
        PROVE  x[1] # <<c, k>>
    <3>1. PICK d \in Calls : \E i \in SkippedAt(d, e) : x \in {<<d, i>>} \X (1 .. results[d][i].delta)
      BY <1>6
    <3>2. PICK i \in SkippedAt(d, e) : x \in {<<d, i>>} \X (1 .. results[d][i].delta)
      BY <3>1
    <3>3. x[1] = <<d, i>>
      BY <3>2
    <3>4. <<d, i>> # <<c, k>>
      BY <1>2, <1>4
    <3> QED
      BY <3>3, <3>4
  <2>2. \A x \in {<<c, k>>} \X (1 .. r.delta) : x[1] = <<c, k>>
    OBVIOUS
  <2> QED
    BY <2>1, <2>2
<1>11. new => /\ Skipped(e)' \subseteq Skipped(e) \cup ({<<c, k>>} \X (1 .. r.delta))
              /\ Skipped(e) \cup ({<<c, k>>} \X (1 .. r.delta)) \subseteq Skipped(e)'
  BY <1>7, <1>8, <1>9
<1>12. ~ new => Skipped(e)' \subseteq Skipped(e) /\ Skipped(e) \subseteq Skipped(e)'
  BY <1>7, <1>9
<1>13. CASE new
  <2>1. Skipped(e)' = Skipped(e) \cup ({<<c, k>>} \X (1 .. r.delta))
    BY <1>11, <1>13
  <2>2. Joins(Skipped(e)', Skipped(e), <<c, k>>, r.delta)
    BY <1>10, <2>1 DEF Joins
  <2> QED
    BY <1>3, <1>13, <2>2
<1>14. CASE ~ new
  <2>1. Skipped(e)' = Skipped(e)
    BY <1>12, <1>14
  <2> QED
    BY <1>3, <1>14, <2>1
<1> QED
  BY <1>3, <1>13, <1>14

\* Nothing but c goes on, and what the others have in their hands stays.
Alone(c) ==
  /\ OnlyCall(c) /\ DOMAIN results' = Calls
  /\ \A d \in Calls \ {c} : results'[d] = results[d]

LEMMA HandsStay ==
  ASSUME PingInv, Conserving, NEW c \in Calls, Alone(c), NEW d \in Calls \ {c}
  PROVE  OnHand(d)'
<1>1. /\ req'[d] = req[d] /\ pc'[d] = pc[d] /\ count'[d] = count[d] /\ popped'[d] = popped[d]
      /\ results'[d] = results[d] /\ OnHand(d) /\ EventAt(d)' = EventAt(d)
  BY OthersStay DEF Alone, OnlyCall, Conserving
<1>2. Adds(d)' = Adds(d)
  BY <1>1 DEF Adds
<1>3. pc[d] = "commit" => pingCount'[EventAt(d)] = pingCount[EventAt(d)]
  <2>1. pc[c] = "commit" /\ pc[d] = "commit" => EventAt(d) # EventAt(c)
    BY DEF PingInv, OneWriter
  <2>2. pingCount \in [Events -> Nat]
    BY DEF PingInv, Functions
  <2> QED
    BY <2>1, <2>2, EventIsOne DEF Alone, OnlyCall
<1> QED
  BY <1>1, <1>2, <1>3 DEF OnHand

LEMMA AloneKeeps ==
  ASSUME PingInv, Conserving, NEW c \in Calls, Alone(c), OnHand(c)',
         \A e \in Events : Balanced(e)'
  PROVE  Conserving'
BY HandsStay DEF Conserving, Alone

\* A step that counts nothing and moves nothing.
LEMMA MovesNothing ==
  ASSUME PingInv, Conserving, NEW c \in Calls, Alone(c), OnHand(c)', ~ Counts(c), ~ Counts(c)',
         UNCHANGED <<pingCount, counters, popped, results>>
  PROVE  Conserving'
<1>1. OthersKept(c)
  BY DEF Alone, OnlyCall, OthersKept
<1>2. ASSUME NEW e \in Events
      PROVE  Balanced(e)'
  <2>1. Counted(e)' = Counted(e) /\ InHand(e)' = InHand(e) /\ Skipped(e)' = Skipped(e)
    BY <1>1, CountedStays, HandStays, SkippedStays
  <2> QED
    BY <2>1 DEF Conserving, Balanced, Finite
<1> QED
  BY <1>2, AloneKeeps

LEMMA ReturnMovesNothing ==
  ASSUME PingInv, Conserving, NEW c \in Calls, NEW kind, Return(c, kind), pc[c] \notin {"idle", "done"},
         kind \notin {"recorded", "unanswered"}
  PROVE  Conserving'
<1>1. /\ pc' = [pc EXCEPT ![c] = "done"] /\ reply' = [reply EXCEPT ![c] = kind]
      /\ held' = [held EXCEPT ![c] = {}] /\ owed' = [owed EXCEPT ![c] = {}]
      /\ UNCHANGED <<ended, req, pingCount, counters, count, popped, results>>
  BY DEF Return, Answer, Go
<1>2. Alone(c)
  BY <1>1 DEF Alone, OnlyCall, Conserving, PingInv, Functions
<1>3. pc'[c] = "done" /\ reply'[c] = kind /\ OnHand(c)
  BY <1>1 DEF PingInv, Functions, Conserving
<1>4. OnHand(c)'
  BY <1>1, <1>3 DEF OnHand
<1>5. ~ Counts(c)
  BY <1>3, NotYet
<1>6. ~ Counts(c)'
  <2>1. req'[c] = req[c] /\ count'[c] = count[c] /\ reply[c] = "none"
    BY <1>1 DEF PingInv, CallOK
  <2>2. Counts(c)' => req[c] # None /\ req[c].op # "flush" /\ count[c] # None /\ req[c].op # "sql"
    BY <1>3, <2>1 DEF Counts
  <2> QED
    BY <1>5, <2>2 DEF Counts
<1> QED
  BY <1>1, <1>2, <1>4, <1>5, <1>6, MovesNothing

LEMMA StartMovesNothing ==
  ASSUME PingInv, Conserving, NEW c \in Calls, NEW r \in Requests, Start(c, r)
  PROVE  Conserving'
<1>1. /\ pc[c] = "idle" /\ req' = [req EXCEPT ![c] = r]
      /\ pc' = [pc EXCEPT ![c] = IF r.op = "flush" THEN "scan" ELSE "session"]
      /\ UNCHANGED <<pingCount, ended, counters, held, count, owed, popped, results, reply>>
  BY DEF Start, Go, work
<1>2. Alone(c)
  BY <1>1 DEF Alone, OnlyCall, Conserving, PingInv, Functions
<1>3. pc'[c] \in {"scan", "session"} /\ OnHand(c) /\ count[c] = None
  BY <1>1 DEF PingInv, Functions, Conserving, OnHand
<1>4. OnHand(c)' /\ ~ Counts(c) /\ ~ Counts(c)'
  BY <1>1, <1>3 DEF OnHand, Counts
<1> QED
  BY <1>1, <1>2, <1>4, MovesNothing

LEMMA ReadMovesNothing ==
  ASSUME PingInv, Conserving, NEW c \in Calls, PingReadSession(c)
  PROVE  Conserving'
<1>1. CASE Return(c, "rejected")
  BY <1>1, ReturnMovesNothing DEF PingReadSession
<1>2. CASE ~ Return(c, "rejected")
  <2>1. /\ pc[c] = "session"
        /\ pc' = [pc EXCEPT ![c] = IF req[c].op = "sql" THEN "update" ELSE "incr"]
        /\ UNCHANGED <<pingCount, ended, counters, req, held, count, owed, popped, results, reply>>
    BY <1>2 DEF PingReadSession, Go, work
  <2>2. Alone(c)
    BY <2>1 DEF Alone, OnlyCall, Conserving, PingInv, Functions
  <2>3. pc'[c] \in {"update", "incr"} /\ OnHand(c) /\ count[c] = None
    BY <2>1 DEF PingInv, Functions, Conserving, OnHand
  <2>4. OnHand(c)' /\ ~ Counts(c) /\ ~ Counts(c)'
    BY <2>1, <2>3 DEF OnHand, Counts
  <2> QED
    BY <2>1, <2>2, <2>4, MovesNothing
<1> QED
  BY <1>1, <1>2

LEMMA UpdateMovesNothing ==
  ASSUME PingInv, Conserving, NEW c \in Calls, PingUpdate(c)
  PROVE  Conserving'
<1>1. CASE Return(c, "failed")
  BY <1>1, ReturnMovesNothing DEF PingUpdate
<1>2. CASE ~ Return(c, "failed")
  <2>1. /\ pc[c] = "update"
        /\ count' = [count EXCEPT ![c] = pingCount[EventAt(c)] + 1]
        /\ held' = [held EXCEPT ![c] = @ \cup Wanted(c)]
        /\ pc' = [pc EXCEPT ![c] = "commit"]
        /\ UNCHANGED <<pingCount, ended, counters, req, owed, popped, results, reply>>
    BY <1>2 DEF PingUpdate, Take, Go
  <2>2. Alone(c)
    BY <2>1 DEF Alone, OnlyCall, Conserving, PingInv, Functions
  <2>3. /\ pc'[c] = "commit" /\ count'[c] = pingCount[EventAt(c)] + 1 /\ OnHand(c) /\ popped[c] = None
        /\ req[c].op = "sql" /\ reply[c] = "none" /\ EventAt(c)' = EventAt(c)
    BY <2>1 DEF PingInv, Functions, Conserving, OnHand, CallOK, EventAt
  <2>4. OnHand(c)' /\ ~ Counts(c) /\ ~ Counts(c)'
    BY <2>1, <2>3 DEF OnHand, Counts, Adds
  <2> QED
    BY <2>1, <2>2, <2>4, MovesNothing
<1> QED
  BY <1>1, <1>2

\* A ping counts from the step in which it gets to the row or to Redis.
LEMMA OneMore ==
  ASSUME PingInv, Conserving, NEW c \in Calls, Alone(c), OnHand(c)', ~ Counts(c), Counts(c)',
         UNCHANGED <<popped, results>>, NEW f \in Events, EventAt(c)' = f,
         \/ pingCount' = [pingCount EXCEPT ![f] = @ + 1] /\ counters' = counters
         \/ counters' = [counters EXCEPT ![f] = @ + 1] /\ pingCount' = pingCount
  PROVE  Conserving'
<1>1. OthersKept(c)
  BY DEF Alone, OnlyCall, OthersKept
<1>2. pingCount \in [Events -> Nat] /\ counters \in [Events -> Nat]
  BY DEF PingInv, Functions
<1>3. ASSUME NEW e \in Events
      PROVE  Balanced(e)'
  <2>1. InHand(e)' = InHand(e) /\ Skipped(e)' = Skipped(e) /\ Balanced(e)
    BY HandStays, SkippedStays DEF Conserving
  <2>2. /\ Cardinality(Counted(e)) \in Nat /\ Cardinality(InHand(e)) \in Nat
        /\ Cardinality(Skipped(e)) \in Nat
    BY <2>1, FS_CardinalityType DEF Balanced, Finite
  <2>3. CASE e = f
    <3>1. Counted(e)' = Counted(e) \cup {c} /\ c \notin Counted(e)
      BY <1>1, <2>3, CountedGains
    <3>2. IsFiniteSet(Counted(e)') /\ Cardinality(Counted(e)') = Cardinality(Counted(e)) + 1
      BY <2>1, <3>1, FS_AddElement DEF Balanced, Finite
    <3>3. pingCount'[e] + counters'[e] = pingCount[e] + counters[e] + 1
      BY <1>2, <2>3
    <3>4. pingCount[e] \in Nat /\ counters[e] \in Nat /\ pingCount'[e] \in Nat /\ counters'[e] \in Nat
      BY <1>2, <2>3
    <3> QED
      BY <2>1, <2>2, <3>2, <3>3, <3>4 DEF Balanced, Finite
  <2>4. CASE e # f
    <3>1. Counted(e)' = Counted(e)
      BY <1>1, <2>4, CountedGains
    <3>2. pingCount'[e] = pingCount[e] /\ counters'[e] = counters[e]
      BY <1>2, <2>4
    <3> QED
      BY <2>1, <3>1, <3>2 DEF Balanced, Finite
  <2> QED
    BY <2>3, <2>4
<1> QED
  BY <1>3, AloneKeeps

LEMMA CommitOneMore ==
  ASSUME PingInv, Conserving, NEW c \in Calls, PingCommit(c)
  PROVE  Conserving'
<1>1. /\ pc[c] = "commit" /\ req[c].op = "sql"
      /\ pingCount' = [pingCount EXCEPT ![EventAt(c)] = count[c]]
      /\ pc' = [pc EXCEPT ![c] = "done"]
      /\ held' = [held EXCEPT ![c] = {}] /\ owed' = [owed EXCEPT ![c] = {}]
      /\ \E kind \in {"recorded", "unanswered"} : reply' = [reply EXCEPT ![c] = kind]
      /\ UNCHANGED <<ended, counters, req, count, popped, results>>
  BY DEF PingCommit, At, Answer, Go
<1>2. Alone(c)
  BY <1>1 DEF Alone, OnlyCall, Conserving, PingInv, Functions
<1>3. /\ pc'[c] = "done" /\ reply'[c] \in {"recorded", "unanswered"} /\ OnHand(c)
      /\ EventAt(c)' = EventAt(c) /\ EventAt(c) \in Events /\ req[c] \in Requests
      /\ count[c] \in Nat
  BY <1>1, EventIsOne DEF PingInv, Functions, Conserving, EventAt, CallOK
<1>4. OnHand(c)' /\ ~ Counts(c)
  BY <1>1, <1>3, NotYet DEF OnHand
<1>5. Counts(c)'
  <2>1. req'[c] # None /\ count'[c] # None
    BY <1>1, <1>3, PingsAssumption
  <2> QED
    BY <1>1, <1>3, <2>1 DEF Counts
<1>6. count[c] = pingCount[EventAt(c)] + 1
  BY <1>1, <1>3 DEF OnHand, Adds
<1>7. pingCount' = [pingCount EXCEPT ![EventAt(c)] = @ + 1]
  BY <1>1, <1>6
<1> QED
  BY <1>1, <1>2, <1>3, <1>4, <1>5, <1>7, OneMore

LEMMA IncrOneMore ==
  ASSUME PingInv, Conserving, NEW c \in Calls, PingIncr(c)
  PROVE  Conserving'
<1>1. /\ pc[c] = "incr"
      /\ counters' = [counters EXCEPT ![EventAt(c)] = @ + 1]
      /\ count' = [count EXCEPT ![c] = counters[EventAt(c)] + 1]
      /\ pc' = [pc EXCEPT ![c] = "done"]
      /\ held' = [held EXCEPT ![c] = {}] /\ owed' = [owed EXCEPT ![c] = {}]
      /\ \E kind \in {"failed", "recorded", "unanswered"} : reply' = [reply EXCEPT ![c] = kind]
      /\ UNCHANGED <<pingCount, ended, req, popped, results>>
  BY DEF PingIncr, Answer, Go
<1>2. Alone(c)
  BY <1>1 DEF Alone, OnlyCall, Conserving, PingInv, Functions
<1>3. /\ pc'[c] = "done" /\ OnHand(c) /\ count'[c] = counters[EventAt(c)] + 1
      /\ EventAt(c)' = EventAt(c) /\ EventAt(c) \in Events /\ req[c] \in Requests
      /\ req[c].op = "redis" /\ counters[EventAt(c)] \in Nat
  BY <1>1, EventIsOne DEF PingInv, Functions, Conserving, EventAt, CallOK
<1>4. OnHand(c)' /\ ~ Counts(c)
  BY <1>1, <1>3, NotYet DEF OnHand
<1>5. Counts(c)'
  <2>1. req'[c] # None /\ count'[c] # None
    BY <1>1, <1>3, PingsAssumption
  <2> QED
    BY <1>1, <1>3, <2>1 DEF Counts
<1> QED
  BY <1>1, <1>2, <1>3, <1>4, <1>5, OneMore

\* What a flush does with pings keeps their number.
LEMMA ScanMovesNothing ==
  ASSUME PingInv, Conserving, NEW c \in Calls, FlushScan(c)
  PROVE  Conserving'
<1>1. /\ pc[c] = "scan" /\ pc' = [pc EXCEPT ![c] = "take"]
      /\ owed' = [owed EXCEPT ![c] = {e \in Events : counters[e] > 0}]
      /\ UNCHANGED <<pingCount, ended, counters, req, held, count, popped, results, reply>>
  BY DEF FlushScan, Go
<1>2. Alone(c)
  BY <1>1 DEF Alone, OnlyCall, Conserving, PingInv, Functions
<1>3. pc'[c] = "take" /\ OnHand(c) /\ req[c].op = "flush"
  BY <1>1 DEF PingInv, Functions, Conserving, CallOK
<1>4. OnHand(c)' /\ ~ Counts(c) /\ ~ Counts(c)'
  BY <1>1, <1>3 DEF OnHand, Counts
<1> QED
  BY <1>1, <1>2, <1>4, MovesNothing

LEMMA WriteMovesNothing ==
  ASSUME PingInv, Conserving, NEW c \in Calls, FlushWrite(c)
  PROVE  Conserving'
<1>1. /\ pc[c] = "write"
      /\ count' = [count EXCEPT ![c] = pingCount[EventAt(c)] + popped[c].delta]
      /\ held' = [held EXCEPT ![c] = @ \cup Wanted(c)]
      /\ pc' = [pc EXCEPT ![c] = "commit"]
      /\ UNCHANGED <<pingCount, ended, counters, req, owed, popped, results, reply>>
  BY DEF FlushWrite, Take, Go
<1>2. Alone(c)
  BY <1>1 DEF Alone, OnlyCall, Conserving, PingInv, Functions
<1>3. /\ pc'[c] = "commit" /\ OnHand(c) /\ req[c].op = "flush" /\ EventAt(c)' = EventAt(c)
      /\ count'[c] = pingCount[EventAt(c)] + popped[c].delta
  BY <1>1 DEF PingInv, Functions, Conserving, CallOK, EventAt
<1>4. OnHand(c)' /\ ~ Counts(c) /\ ~ Counts(c)'
  BY <1>1, <1>3 DEF OnHand, Counts, Adds
<1> QED
  BY <1>1, <1>2, <1>4, MovesNothing

LEMMA TakeKeeps ==
  ASSUME PingInv, Conserving, NEW c \in Calls, NEW f \in Events, FlushTake(c, f)
  PROVE  Conserving'
<1>1. /\ pc[c] = "take" /\ counters[f] > 0 /\ counters[f] \in Nat
      /\ counters' = [counters EXCEPT ![f] = 0]
      /\ owed' = [d \in Calls |-> owed[d] \ {f}]
      /\ UNCHANGED <<pingCount, ended, req, held, count, reply>>
  BY DEF FlushTake, PingInv, Functions
<1>2. PICK n \in Nat : n = counters[f]
  BY <1>1
<1>3. /\ OnHand(c) /\ popped[c] = None /\ req[c].op = "flush" /\ DOMAIN popped = Calls
      /\ DOMAIN results = Calls /\ results[c] \in Seq(Result) /\ DOMAIN pc = Calls
  BY <1>1 DEF Conserving, OnHand, PingInv, CallOK, Functions
<1>4. ~ Counts(c) /\ ~ Counts(c)' /\ OthersKept(c)
  BY <1>1, <1>3 DEF Counts, OthersKept
<1>5. \A e \in Events : /\ Counted(e)' = Counted(e) /\ Balanced(e)
                        /\ pingCount'[e] = pingCount[e] /\ pingCount[e] \in Nat
                        /\ counters'[e] = (IF e = f THEN 0 ELSE counters[e])
                        /\ counters[e] \in Nat
  BY <1>1, <1>4, CountedStays DEF Conserving, PingInv, Functions
<1>6. CASE /\ popped' = [popped EXCEPT ![c] = [event |-> f, delta |-> counters[f]]]
           /\ pc' = [pc EXCEPT ![c] = "write"] /\ results' = results
  <2>1. popped'[c] = [event |-> f, delta |-> n] /\ popped'[c] # None /\ DOMAIN popped' = Calls
        /\ \A d \in Calls \ {c} : popped'[d] = popped[d]
    BY <1>2, <1>3, <1>6, PingsAssumption
  <2>2. Alone(c)
    BY <1>1, <1>3, <1>6, <2>1 DEF Alone, OnlyCall
  <2>3. OnHand(c)'
    BY <1>1, <1>3, <1>6 DEF OnHand
  <2>4. ASSUME NEW e \in Events
        PROVE  Balanced(e)'
    <3>1. /\ f = e => Joins(InHand(e)', InHand(e), c, n)
          /\ f # e => InHand(e)' = InHand(e)
      <4>1. popped'[c].event = f /\ popped'[c].delta = n
        BY <2>1
      <4>2. InHands(InHand(e), popped, e) /\ InHands(InHand(e)', popped', e)
        BY HandsNow, HandsNext
      <4>3. /\ popped'[c].event = e => Joins(InHand(e)', InHand(e), c, popped'[c].delta)
            /\ popped'[c].event # e => InHand(e)' = InHand(e)
        BY <1>3, <2>1, <4>2, HandMoves
      <4> QED
        BY <4>1, <4>3
    <3>2. Skipped(e)' = Skipped(e)
      BY <1>6, SkippedStays
    <3>3. CASE e = f
      <4>1. /\ IsFiniteSet(InHand(e)') /\ Cardinality(InHand(e)') = Cardinality(InHand(e)) + n
            /\ Cardinality(InHand(e)) \in Nat
        <5>1. Joins(InHand(e)', InHand(e), c, n)
          BY <3>1, <3>3
        <5>2. IsFiniteSet(InHand(e))
          BY <1>5 DEF Balanced, Finite
        <5> QED
          BY <5>1, <5>2, BlockJoins
      <4>2. Cardinality(Skipped(e)) \in Nat
        BY <1>5, FS_CardinalityType DEF Balanced, Finite
      <4>3. Cardinality(Counted(e)) = pingCount[e] + n + Cardinality(InHand(e)) + Cardinality(Skipped(e))
        BY <1>2, <1>5, <3>3 DEF Balanced
      <4>4. Cardinality(Counted(e)') = pingCount'[e] + counters'[e]
              + Cardinality(InHand(e)') + Cardinality(Skipped(e)')
        BY <1>5, <3>2, <3>3, <4>1, <4>2, <4>3
      <4> QED
        BY <1>5, <3>2, <4>1, <4>4 DEF Balanced, Finite
    <3>4. CASE e # f
      BY <1>5, <3>1, <3>2, <3>4 DEF Balanced, Finite
    <3> QED
      BY <3>3, <3>4
  <2> QED
    BY <2>2, <2>3, <2>4, AloneKeeps
<1>7. CASE /\ results' = [results EXCEPT ![c] =
                Append(@, [event |-> f, delta |-> counters[f], persisted |-> FALSE])]
           /\ UNCHANGED <<pc, popped>>
  <2>1. PICK r \in Result : r = [event |-> f, delta |-> n, persisted |-> FALSE]
    BY DEF Result
  <2>2. /\ results' = [results EXCEPT ![c] = Append(@, r)]
        /\ r.event = f /\ r.delta = n /\ ~ r.persisted
    BY <1>2, <1>7, <2>1
  <2>3. /\ results'[c] \in Seq(Result) /\ DOMAIN results' = Calls
        /\ \A d \in Calls \ {c} : results'[d] = results[d]
    BY <1>3, <2>2
  <2>4. Alone(c)
    BY <1>1, <1>7, <2>3 DEF Alone, OnlyCall
  <2>5. OnHand(c)'
    BY <1>1, <1>3, <1>7, <2>3 DEF OnHand
  <2>6. ASSUME NEW e \in Events
        PROVE  Balanced(e)'
    <3>1. InHand(e)' = InHand(e)
      BY <1>7, HandStays
    <3>2. /\ r.event = e => \E k : Joins(Skipped(e)', Skipped(e), <<c, k>>, r.delta)
          /\ r.event # e => Skipped(e)' = Skipped(e)
      BY <1>3, <2>2, SkippedMoves
    <3>3. CASE e = f
      <4>1. PICK k : Joins(Skipped(e)', Skipped(e), <<c, k>>, n)
        BY <2>2, <3>2, <3>3
      <4>2. IsFiniteSet(Skipped(e))
        BY <1>5 DEF Balanced, Finite
      <4>3. /\ IsFiniteSet(Skipped(e)') /\ Cardinality(Skipped(e)') = Cardinality(Skipped(e)) + n
            /\ Cardinality(Skipped(e)) \in Nat
        BY <4>1, <4>2, BlockJoins
      <4>4. Cardinality(InHand(e)) \in Nat
        BY <1>5, FS_CardinalityType DEF Balanced, Finite
      <4>5. Cardinality(Counted(e)) = pingCount[e] + n + Cardinality(InHand(e)) + Cardinality(Skipped(e))
        BY <1>2, <1>5, <3>3 DEF Balanced
      <4>6. Cardinality(Counted(e)') = pingCount'[e] + counters'[e]
              + Cardinality(InHand(e)') + Cardinality(Skipped(e)')
        BY <1>5, <3>1, <3>3, <4>3, <4>4, <4>5
      <4> QED
        BY <1>5, <3>1, <4>3, <4>6 DEF Balanced, Finite
    <3>4. CASE e # f
      <4>1. Skipped(e)' = Skipped(e)
        BY <2>2, <3>2, <3>4
      <4> QED
        BY <1>5, <3>1, <3>4, <4>1 DEF Balanced, Finite
    <3> QED
      BY <3>3, <3>4
  <2> QED
    BY <2>4, <2>5, <2>6, AloneKeeps
<1> QED
  BY <1>6, <1>7 DEF FlushTake, Go

LEMMA FlushCommitKeeps ==
  ASSUME PingInv, Conserving, NEW c \in Calls, FlushCommit(c)
  PROVE  Conserving'
<1>1. /\ pc[c] = "commit" /\ req[c].op = "flush"
      /\ pingCount' = [pingCount EXCEPT ![EventAt(c)] = count[c]]
      /\ popped' = [popped EXCEPT ![c] = None]
      /\ results' = [results EXCEPT ![c] =
           Append(@, [event |-> EventAt(c), delta |-> popped[c].delta, persisted |-> TRUE])]
      /\ held' = [held EXCEPT ![c] = {}]
      /\ UNCHANGED <<ended, counters, req, count>>
      /\ \/ pc' = [pc EXCEPT ![c] = "take"] /\ UNCHANGED <<owed, reply>>
         \/ /\ pc' = [pc EXCEPT ![c] = "done"]
            /\ owed' = [owed EXCEPT ![c] = {}] /\ reply' = [reply EXCEPT ![c] = "unanswered"]
  BY DEF FlushCommit, At, Answer, Go
<1>2. /\ OnHand(c) /\ popped[c] # None /\ popped[c].delta \in Nat
      /\ EventAt(c) \in Events /\ popped[c].event = EventAt(c)
      /\ count[c] = pingCount[EventAt(c)] + popped[c].delta
  BY <1>1, EventIsOne DEF Conserving, OnHand, Adds, PingInv, CallOK, At, EventAt
<1>3. PICK n \in Nat : n = popped[c].delta
  BY <1>2
<1>4. PICK f \in Events : f = EventAt(c)
  BY <1>2
<1>5. /\ DOMAIN popped = Calls /\ DOMAIN results = Calls /\ results[c] \in Seq(Result)
      /\ DOMAIN pc = Calls /\ DOMAIN reply = Calls /\ DOMAIN held = Calls /\ DOMAIN owed = Calls
  BY <1>2 DEF Conserving, OnHand, PingInv, Functions
<1>6. PICK r \in Result : r = [event |-> f, delta |-> n, persisted |-> TRUE]
  BY DEF Result
<1>7. /\ results' = [results EXCEPT ![c] = Append(@, r)] /\ r.persisted
  BY <1>1, <1>3, <1>4, <1>6
<1>8. /\ results'[c] \in Seq(Result) /\ DOMAIN results' = Calls
      /\ \A d \in Calls \ {c} : results'[d] = results[d]
  BY <1>5, <1>7
<1>9. /\ popped'[c] = None /\ DOMAIN popped' = Calls /\ pc'[c] \in {"take", "done"}
      /\ \A d \in Calls \ {c} : popped[d] = popped'[d]
  BY <1>1, <1>5
<1>10. Alone(c)
  BY <1>1, <1>5, <1>8, <1>9 DEF Alone, OnlyCall
<1>11. OnHand(c)'
  BY <1>8, <1>9 DEF OnHand
<1>12. ~ Counts(c) /\ ~ Counts(c)' /\ OthersKept(c)
  BY <1>1, <1>10 DEF Counts, OthersKept, Alone, OnlyCall
<1>13. ASSUME NEW e \in Events
       PROVE  Balanced(e)'
  <2>1. /\ Counted(e)' = Counted(e) /\ Balanced(e) /\ counters'[e] = counters[e]
        /\ pingCount[e] \in Nat /\ counters[e] \in Nat
        /\ pingCount'[e] = IF e = f THEN pingCount[e] + n ELSE pingCount[e]
    BY <1>1, <1>2, <1>3, <1>4, <1>12, CountedStays DEF Conserving, PingInv, Functions
  <2>2. Skipped(e)' = Skipped(e)
    BY <1>5, <1>7, SkippedMoves
  <2>3. /\ e = f => Joins(InHand(e), InHand(e)', c, n)
        /\ e # f => InHand(e) = InHand(e)'
    <3>1. popped[c].event = f /\ popped[c].delta = n
      BY <1>2, <1>3, <1>4
    <3>2. InHands(InHand(e), popped, e) /\ InHands(InHand(e)', popped', e)
      BY HandsNow, HandsNext
    <3>3. /\ popped[c].event = e => Joins(InHand(e), InHand(e)', c, popped[c].delta)
          /\ popped[c].event # e => InHand(e) = InHand(e)'
      BY <1>2, <1>5, <1>9, <3>2, HandMoves
    <3> QED
      BY <3>1, <3>3
  <2>4. CASE e = f
    <3>1. IsFiniteSet(InHand(e)')
      <4>1. InHand(e)' \subseteq InHand(e) /\ IsFiniteSet(InHand(e))
        BY <2>1, <2>3, <2>4 DEF Balanced, Finite, Joins
      <4> QED
        BY <4>1, FS_Subset
    <3>2. Joins(InHand(e), InHand(e)', c, n)
      BY <2>3, <2>4
    <3>3. /\ Cardinality(InHand(e)) = Cardinality(InHand(e)') + n /\ Cardinality(InHand(e)') \in Nat
      BY <3>1, <3>2, BlockJoins
    <3>4. Cardinality(Skipped(e)) \in Nat
      BY <2>1, FS_CardinalityType DEF Balanced, Finite
    <3>5. Cardinality(Counted(e)') = pingCount'[e] + counters'[e]
            + Cardinality(InHand(e)') + Cardinality(Skipped(e)')
      BY <2>1, <2>2, <2>4, <3>3, <3>4 DEF Balanced
    <3> QED
      BY <2>1, <2>2, <3>1, <3>5 DEF Balanced, Finite
  <2>5. CASE e # f
    BY <2>1, <2>2, <2>3, <2>5 DEF Balanced, Finite
  <2> QED
    BY <2>4, <2>5
<1> QED
  BY <1>10, <1>11, <1>13, AloneKeeps

LEMMA ConservingInit == Init => Conserving
<1> SUFFICES ASSUME Init PROVE Conserving
  OBVIOUS
<1>1. \A c \in Calls : OnHand(c) /\ ~ Counts(c) /\ popped[c] = None /\ results[c] = <<>>
  BY DEF Init, OnHand, Counts
<1>2. ASSUME NEW e \in Events
      PROVE  Balanced(e)
  <2>1. Counted(e) = {}
    BY <1>1 DEF Counted
  <2>2. \A c \in Calls : SkippedAt(c, e) = {}
    BY <1>1 DEF SkippedAt
  <2>3. InHand(e) = {} /\ Skipped(e) = {}
    BY <1>1, <2>2, FormsNow DEF InHandForm, SkippedForm
  <2>4. Cardinality({}) = 0 /\ IsFiniteSet({})
    BY FS_EmptySet
  <2>5. pingCount[e] = 0 /\ counters[e] = 0
    BY DEF Init
  <2> QED
    BY <2>1, <2>3, <2>4, <2>5 DEF Balanced, Finite
<1> QED
  BY <1>1, <1>2 DEF Conserving, Init

LEMMA ConservingRests ==
  ASSUME Conserving,
         UNCHANGED <<pingCount, counters, req, pc, count, popped, results, reply>>
  PROVE  Conserving'
<1>1. \A c \in Calls : OnHand(c)' /\ (Counts(c)' <=> Counts(c)) /\ EventAt(c)' = EventAt(c)
  BY DEF Conserving, OnHand, Counts, EventAt, Adds
<1>2. \A e : Counted(e)' = Counted(e) /\ InHand(e)' = InHand(e) /\ Skipped(e)' = Skipped(e)
  BY <1>1, HandStays, SkippedStays DEF Counted
<1> QED
  BY <1>1, <1>2 DEF Conserving, Balanced, Finite

LEMMA ConservingNext == PingInv /\ Conserving /\ [Next]_vars => Conserving'
<1> SUFFICES ASSUME PingInv, Conserving, [Next]_vars
             PROVE  Conserving'
  OBVIOUS
<1>1. ASSUME NEW c \in Calls, Crash(c)
      PROVE  Conserving'
  BY <1>1, ReturnMovesNothing DEF Crash
<1>2. ASSUME NEW x \in Sessions, EndSession(x)
      PROVE  Conserving'
  BY <1>2, ConservingRests DEF EndSession, work
<1>3. CASE UNCHANGED vars
  BY <1>3, ConservingRests DEF vars, work
<1>4. Finished => UNCHANGED vars
  BY DEF Finished
<1>5. ASSUME NEW c \in Calls, PingStep(c)
      PROVE  Conserving'
  BY <1>5, ReadMovesNothing, UpdateMovesNothing, CommitOneMore, IncrOneMore DEF PingStep
<1>6. ASSUME NEW c \in Calls, FlushStep(c)
      PROVE  Conserving'
  <2>1. FlushEnd(c) => Conserving'
    BY ReturnMovesNothing DEF FlushEnd
  <2> QED
    BY <1>6, <2>1, ScanMovesNothing, TakeKeeps, WriteMovesNothing, FlushCommitKeeps DEF FlushStep
<1> QED
  BY <1>1, <1>2, <1>3, <1>4, <1>5, <1>6, StartMovesNothing DEF Next

\* However pings on both paths, flushes and crashes interleave, every ping that
\* was recorded or incremented is in the row, in Redis, in the hands of one flush
\* or in what a flush reports as not persisted, and in one of them only
\* (record_ping, record_ping_redis, flush_counters).
THEOREM EveryPingCountsOnce == Spec => []PingsConserved
<1>1. Conserving => PingsConserved
  BY DEF Conserving, Balanced, PingsConserved
<1> QED
  BY <1>1, ConservingInit, ConservingNext, PingInvHolds, PTL DEF Spec

-----------------------------------------------------------------------------
(* Commands of Redis that run. *)

\* g numbers what h sends to k.
Numbers(g, Z, h, k, n) ==
  /\ \A z \in {y \in Z : h[y] = k} : g[z] \in 1 .. n
  /\ \A y, z \in {x \in Z : h[x] = k} : g[y] = g[z] => y = z

LEMMA AtMostEach ==
  ASSUME NEW K, IsFiniteSet(K), NEW n \in Nat, NEW Z, NEW h, \A z \in Z : h[z] \in K,
         \A k \in K : /\ IsFiniteSet({z \in Z : h[z] = k})
                      /\ Cardinality({z \in Z : h[z] = k}) <= n
  PROVE  Cardinality(Z) <= Cardinality(K) * n
<1>1. ASSUME NEW k \in K
      PROVE  \E g : Numbers(g, Z, h, k, n)
  <2> DEFINE B == {z \in Z : h[z] = k}
  <2>1. PICK m \in Nat : m = Cardinality(B) /\ m <= n /\ ExistsBijection(1 .. m, B)
    BY FS_CardinalityType
  <2>2. ExistsBijection(B, 1 .. m)
    BY <2>1, Fun_ExistsBijSymmetric
  <2>3. PICK g : g \in Bijection(B, 1 .. m)
    BY <2>2 DEF ExistsBijection
  <2>4. g \in [B -> 1 .. m] /\ \A y, z \in B : g[y] = g[z] => y = z
    BY <2>3 DEF Bijection, Injection, IsInjective
  <2>5. /\ \A z \in B : g[z] \in 1 .. n
        /\ \A y, z \in B : g[y] = g[z] => y = z
    BY <2>1, <2>4
  <2> QED
    BY <2>5 DEF Numbers
<1> DEFINE G(k) == CHOOSE g : Numbers(g, Z, h, k, n)
           F    == [z \in Z |-> <<h[z], G(h[z])[z]>>]
<1>2. \A k \in K : Numbers(G(k), Z, h, k, n)
  BY <1>1
<1> HIDE DEF G
<1>3. F \in [Z -> K \X (1 .. n)]
  BY <1>2 DEF Numbers
<1>4. \A y, z \in Z : F[y] = F[z] => y = z
  <2> SUFFICES ASSUME NEW y \in Z, NEW z \in Z, F[y] = F[z]
               PROVE  y = z
    OBVIOUS
  <2>1. h[y] = h[z] /\ G(h[y])[y] = G(h[z])[z]
    OBVIOUS
  <2>2. PICK k \in K : k = h[y]
    OBVIOUS
  <2>3. Numbers(G(k), Z, h, k, n)
    BY <1>2
  <2>4. G(k)[y] = G(k)[z]
    BY <2>1, <2>2
  <2> QED
    BY <2>1, <2>2, <2>3, <2>4 DEF Numbers
<1>5. F \in Injection(Z, K \X (1 .. n))
  BY <1>3, <1>4 DEF Injection, IsInjective
<1>6. IsFiniteSet(1 .. n) /\ Cardinality(1 .. n) = n
  <2>1. /\ IsFiniteSet(1 .. n)
        /\ Cardinality(1 .. n) = IF 1 > n THEN 0 ELSE n - 1 + 1
    BY FS_Interval
  <2> QED
    BY <2>1
<1>7. /\ IsFiniteSet(K \X (1 .. n))
      /\ Cardinality(K \X (1 .. n)) = Cardinality(K) * Cardinality(1 .. n)
  BY <1>6, FS_Product
<1> HIDE DEF F
<1>8. Cardinality(Z) <= Cardinality(K \X (1 .. n))
  BY <1>5, <1>7, FS_Injection
<1> QED
  BY <1>6, <1>7, <1>8

\* The pools of Redis: of every client that has been built, what runs fits its
\* pool; the client of init_redis, called first, remains the only one.
RedisInv ==
  /\ IsFiniteSet(clients)
  /\ \A k \in clients : IsFiniteSet(Borrowed(k)) /\ Cardinality(Borrowed(k)) <= size.redis
  /\ Main \in clients => clients = {Main} /\ client = Main /\ building = {}

LEMMA SomeRedis == PoolInv => size.redis \in Nat \ {0}
BY PoolsAssumption DEF PoolInv

\* A step that gives connections back, or does not touch them.
LEMMA RedisRests ==
  ASSUME PoolInv, RedisInv, UNCHANGED <<size, client, clients>>,
         building' \subseteq building,
         \A d \in Calls : line'[d] = line[d] \/ line'[d] = None
  PROVE  RedisInv'
<1>1. ASSUME NEW k \in clients
      PROVE  IsFiniteSet(Borrowed(k)') /\ Cardinality(Borrowed(k)') <= size.redis
  <2>1. k # None
    BY PoolsAssumption DEF PoolInv
  <2>2. Borrowed(k)' \subseteq Borrowed(k)
    BY <2>1 DEF Borrowed
  <2>3. IsFiniteSet(Borrowed(k)) /\ Cardinality(Borrowed(k)) <= size.redis
    BY DEF RedisInv
  <2>4. /\ IsFiniteSet(Borrowed(k)') /\ Cardinality(Borrowed(k)') <= Cardinality(Borrowed(k))
        /\ Cardinality(Borrowed(k)') \in Nat /\ Cardinality(Borrowed(k)) \in Nat
    BY <2>2, <2>3, FS_Subset, FS_CardinalityType
  <2> QED
    BY <2>3, <2>4, SomeRedis
<1> QED
  BY <1>1 DEF RedisInv

LEMMA RedisLends ==
  ASSUME PoolInv, RedisInv, NEW c \in Calls, RedisBorrow(c)
  PROVE  RedisInv'
<1>1. PICK k : k = uses[c]
  OBVIOUS
<1>2. /\ k # None /\ k \in clients /\ line[c] = None /\ RedisFree(k)
      /\ line' = [line EXCEPT ![c] = k] /\ UNCHANGED <<size, client, clients, building>>
  BY <1>1 DEF RedisBorrow, WantsRedis, PoolInv
<1>3. DOMAIN line = Calls
  BY DEF PoolInv
<1>4. Borrowed(k)' = Borrowed(k) \cup {c} /\ c \notin Borrowed(k)
  <2>1. Borrowed(k)' \subseteq Borrowed(k) \cup {c} /\ Borrowed(k) \cup {c} \subseteq Borrowed(k)'
    BY <1>2, <1>3 DEF Borrowed
  <2> QED
    BY <1>2, <2>1 DEF Borrowed
<1>5. /\ IsFiniteSet(Borrowed(k)') /\ Cardinality(Borrowed(k)') = Cardinality(Borrowed(k)) + 1
      /\ Cardinality(Borrowed(k)) \in Nat
  <2>1. IsFiniteSet(Borrowed(k))
    BY <1>2 DEF RedisInv
  <2> QED
    BY <1>4, <2>1, FS_AddElement, FS_CardinalityType
<1>6. Cardinality(Borrowed(k)') <= size.redis
  BY <1>2, <1>5, SomeRedis DEF RedisFree
<1>7. ASSUME NEW l \in clients, l # k
      PROVE  Borrowed(l)' = Borrowed(l)
  <2>1. l # None
    BY PoolsAssumption DEF PoolInv
  <2>2. Borrowed(l)' \subseteq Borrowed(l) /\ Borrowed(l) \subseteq Borrowed(l)'
    BY <1>2, <1>3, <1>7, <2>1 DEF Borrowed
  <2> QED
    BY <2>2
<1> QED
  BY <1>2, <1>5, <1>6, <1>7 DEF RedisInv

LEMMA RedisBuilt ==
  ASSUME PoolInv, RedisInv, NEW c \in Calls, InitRedis(c)
  PROVE  RedisInv'
<1>1. /\ c \in building /\ clients' = clients \cup {c} /\ UNCHANGED <<size, line>>
  BY DEF InitRedis
<1>2. c # Main /\ c # None /\ Main \notin clients
  BY <1>1, PoolsAssumption DEF RedisInv
<1>3. \A k : Borrowed(k)' = Borrowed(k)
  BY <1>1 DEF Borrowed
<1>4. c \notin clients => Borrowed(c) = {}
  BY <1>2 DEF Borrowed, PoolInv
<1>5. IsFiniteSet(Borrowed(c)) /\ Cardinality(Borrowed(c)) <= size.redis
  <2>1. Cardinality({}) = 0 /\ IsFiniteSet({})
    BY FS_EmptySet
  <2>2. CASE c \in clients
    BY <2>2 DEF RedisInv
  <2>3. CASE c \notin clients
    BY <1>4, <2>1, <2>3, SomeRedis
  <2> QED
    BY <2>2, <2>3
<1>6. IsFiniteSet(clients')
  BY <1>1, FS_AddElement DEF RedisInv
<1> QED
  BY <1>1, <1>2, <1>3, <1>5, <1>6 DEF RedisInv

LEMMA RedisNext == PoolInv /\ RedisInv /\ [PooledNext]_<<vars, poolVars>> => RedisInv'
<1> SUFFICES ASSUME PoolInv, RedisInv, [PooledNext]_<<vars, poolVars>>
             PROVE  RedisInv'
  OBVIOUS
<1>1. DOMAIN line = Calls
  BY DEF PoolInv
<1>2. ASSUME UNCHANGED poolVars
      PROVE  RedisInv'
  BY <1>2, RedisRests DEF poolVars, redisVars
<1>3. ASSUME NEW c \in Calls, GiveBack(c)
      PROVE  RedisInv'
  BY <1>1, <1>3, RedisRests DEF GiveBack
<1>4. ASSUME UNCHANGED <<size, redisVars>>
      PROVE  RedisInv'
  BY <1>4, RedisRests DEF redisVars
<1>5. ASSUME NEW c \in Calls, DbWork(c)
      PROVE  RedisInv'
  BY <1>2, <1>3, <1>4, <1>5 DEF DbWork
<1>6. ASSUME NEW c \in Calls, GetClient(c)
      PROVE  RedisInv'
  BY <1>6, RedisRests DEF GetClient
<1>7. ASSUME NEW c \in Calls, NoClient(c)
      PROVE  RedisInv'
  <2>1. UNCHANGED <<size, client, clients, line>> /\ client = None
    BY <1>7 DEF NoClient
  <2>2. Main \notin clients /\ \A k : Borrowed(k)' = Borrowed(k)
    BY <2>1, PoolsAssumption DEF RedisInv, Borrowed
  <2> QED
    BY <2>1, <2>2 DEF RedisInv
<1>8. ASSUME NEW c \in Calls, RedisWork(c)
      PROVE  RedisInv'
  <2>1. ASSUME line' = [line EXCEPT ![c] = None], UNCHANGED <<size, db, client, clients, building, uses>>
        PROVE  RedisInv'
    BY <1>1, <2>1, RedisRests
  <2> QED
    BY <1>3, <1>8, <2>1 DEF RedisWork
<1>9. ASSUME NEW c \in Calls, PooledRead(c) \/ DbCheckout(c)
      PROVE  RedisInv'
  BY <1>4, <1>9 DEF PooledRead, DbCheckout
<1>10. ASSUME NEW c \in Calls, PooledEnd(c) \/ PoolTimeout(c) \/ (Crash(c) /\ GiveBack(c))
       PROVE  RedisInv'
  BY <1>3, <1>10 DEF PooledEnd, PoolTimeout
<1> QED
  BY <1>2, <1>3, <1>5, <1>6, <1>7, <1>8, <1>9, <1>10, RedisLends, RedisBuilt DEF PooledNext

LEMMA RedisInit == PooledInit => RedisInv
<1> SUFFICES ASSUME PooledInit
             PROVE  RedisInv
  OBVIOUS
<1>1. clients \subseteq {client} /\ IsFiniteSet({client})
  BY FS_Singleton DEF PooledInit
<1>2. IsFiniteSet(clients)
  BY <1>1, FS_Subset
<1>3. ASSUME NEW k \in clients
      PROVE  IsFiniteSet(Borrowed(k)) /\ Cardinality(Borrowed(k)) <= size.redis
  <2>1. Borrowed(k) = {}
    BY DEF PooledInit, Borrowed
  <2>2. size.redis \in Nat
    BY PoolsAssumption DEF PooledInit
  <2> QED
    BY <2>1, <2>2, FS_EmptySet
<1>4. Main \in clients => clients = {Main} /\ client = Main /\ building = {}
  BY DEF PooledInit
<1> QED
  BY <1>2, <1>3, <1>4 DEF RedisInv

LEMMA RedisFits == PoolInv /\ RedisInv => RedisBounded
<1> SUFFICES ASSUME PoolInv, RedisInv
             PROVE  RedisBounded
  OBVIOUS
<1> DEFINE Z == {c \in Calls : line[c] # None}
<1>1. \A k \in clients : {z \in Z : line[z] = k} = Borrowed(k)
  <2>1. ASSUME NEW k \in clients
        PROVE  {z \in Z : line[z] = k} = Borrowed(k)
    <3>1. k # None
      BY PoolsAssumption DEF PoolInv
    <3> QED
      BY <3>1 DEF Borrowed
  <2> QED
    BY <2>1
<1>2. \A z \in Z : line[z] \in clients
  BY DEF PoolInv
<1>3. \A k \in clients : /\ IsFiniteSet({z \in Z : line[z] = k})
                         /\ Cardinality({z \in Z : line[z] = k}) <= size.redis
  BY <1>1 DEF RedisInv
<1>4. IsFiniteSet(clients) /\ size.redis \in Nat
  BY SomeRedis DEF RedisInv
<1> HIDE DEF Z
<1>5. Cardinality(Z) <= Cardinality(clients) * size.redis
  BY <1>2, <1>3, <1>4, AtMostEach
<1>6. Main \in clients => clients = {Main} /\ Cardinality(Z) <= size.redis
  <2>1. ASSUME Main \in clients
        PROVE  Cardinality(clients) = 1
    <3>1. clients = {Main}
      BY <2>1 DEF RedisInv
    <3> QED
      BY <3>1, FS_Singleton
  <2> QED
    BY <1>4, <1>5, <2>1 DEF RedisInv
<1> QED
  BY <1>5, <1>6 DEF RedisBounded, Z

\* The commands of Redis that run never use more connections than the pools of
\* the clients that have been built have, and one pool alone once init_redis has
\* been called before there are calls (redis_client.py).
THEOREM RedisNeverOversubscribed == PooledSpec => []RedisBounded
BY RedisInit, RedisNext, RedisFits, PooledInvHolds, PTL DEF PooledSpec

\* So with the pools beside them, whatever waits for a connection or gives up
\* waiting: the counters keep their types, no update is lost and every ping counts
\* once (engagement.py on top of db.py and redis_client.py).
THEOREM PooledPingsKeepBooks == PooledSpec => [](TypeOK /\ CountsDiffer /\ PingsConserved)
BY PoolsImplementPings, PingTypes, NoLostUpdate, EveryPingCountsOnce, PTL

=============================================================================
