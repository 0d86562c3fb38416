----------------------------- MODULE PooledPings -----------------------------
(***************************************************************************)
(* Pings, with the connections its calls share: the pool of the database   *)
(* engine (db.py, init_engine and tx) and the blocking pool of the Redis   *)
(* client (redis_client.py), which get_redis builds when nobody has.       *)
(*                                                                         *)
(* A transaction holds a connection from its first statement to its end; a *)
(* Redis command holds one while it runs.  record_ping_redis sends its     *)
(* INCR from inside its transaction.                                       *)
(***************************************************************************)
EXTENDS Pings

CONSTANTS
  Sizes,  \* [db |-> .., redis |-> ..]: pool_size + max_overflow, MAX_CONNECTIONS
  Main    \* the thread that calls init_redis before there are any calls

ASSUME PoolsAssumption ==
  /\ \A s \in Sizes : s.db \in Nat \ {0} /\ s.redis \in Nat \ {0}
  /\ Main \notin Calls \cup {None} /\ None \notin Calls

VARIABLES
  size,      \* one of Sizes
  db,        \* the calls that hold a database connection
  client,    \* _client, by who has built it
  clients,   \* all that have been built
  building,  \* the calls that have found _client None
  uses,      \* the client get_redis has returned to each call
  line       \* the client of whose pool it holds a connection

redisVars == <<client, clients, building, uses, line>>
poolVars  == <<size, db, redisVars>>

PooledInit ==
  /\ Init
  /\ size \in Sizes
  /\ db = {}
  /\ client \in {None, Main} /\ clients = {client} \ {None}
  /\ building = {}
  /\ uses = [c \in Calls |-> None]
  /\ line = [c \in Calls |-> None]

DbFree      == Cardinality(db) < size.db
Borrowed(k) == {c \in Calls : line[c] = k}
RedisFree(k) == Cardinality(Borrowed(k)) < size.redis

WantsDb(c)     == pc[c] \in {"session", "write"} /\ c \notin db
WantsClient(c) == pc[c] \in {"incr", "scan"} /\ uses[c] = None
WantsRedis(c)  == pc[c] \in {"incr", "scan", "take"} /\ uses[c] # None /\ line[c] = None

\* A call that has ended leaves nothing taken.
GiveBack(c) ==
  /\ db' = db \ {c}
  /\ building' = building \ {c}
  /\ uses' = [uses EXCEPT ![c] = None]
  /\ line' = [line EXCEPT ![c] = None]
  /\ UNCHANGED <<size, client, clients>>

-----------------------------------------------------------------------------
\* tx

\* The first statement of a ping waits for nothing but its connection.
PooledRead(c) ==
  /\ WantsDb(c) /\ DbFree /\ PingReadSession(c)
  /\ db' = IF pc'[c] = "done" THEN db ELSE db \cup {c}
  /\ UNCHANGED <<size, redisVars>>

DbCheckout(c) ==
  /\ pc[c] = "write" /\ WantsDb(c) /\ DbFree
  /\ db' = db \cup {c}
  /\ UNCHANGED <<vars, size, redisVars>>

\* Mutant: the connection of a transaction whose answer is lost is not closed.
DbWorkLeaking(c) ==
  /\ c \in db
  /\ PingUpdate(c) \/ PingCommit(c) \/ FlushWrite(c) \/ FlushCommit(c)
  /\ IF pc'[c] = "commit" \/ reply'[c] = "unanswered" THEN UNCHANGED poolVars
     ELSE IF pc'[c] = "done" THEN GiveBack(c)
     ELSE db' = db \ {c} /\ UNCHANGED <<size, redisVars>>

\* The finally of tx gives the connection back, however the transaction ends.
DbWork(c) ==
  /\ c \in db
  /\ PingUpdate(c) \/ PingCommit(c) \/ FlushWrite(c) \/ FlushCommit(c)
  /\ IF pc'[c] = "commit" THEN UNCHANGED poolVars
     ELSE IF pc'[c] = "done" THEN GiveBack(c)
     ELSE db' = db \ {c} /\ UNCHANGED <<size, redisVars>>

-----------------------------------------------------------------------------
\* get_redis, init_redis

GetClient(c) ==
  /\ WantsClient(c) /\ c \notin building /\ client # None
  /\ uses' = [uses EXCEPT ![c] = client]
  /\ UNCHANGED <<vars, size, db, client, clients, building, line>>

\* Mutant: a client for every call.
NoClientAnyway(c) ==
  /\ WantsClient(c) /\ c \notin building /\ c \notin clients
  /\ building' = building \cup {c}
  /\ UNCHANGED <<vars, size, db, client, clients, uses, line>>

NoClient(c) ==
  /\ WantsClient(c) /\ c \notin building /\ client = None
  /\ building' = building \cup {c}
  /\ UNCHANGED <<vars, size, db, client, clients, uses, line>>

\* Several that have found none each build one; what they return is the last.
InitRedis(c) ==
  /\ c \in building
  /\ client' = c /\ clients' = clients \cup {c}
  /\ building' = building \ {c}
  /\ UNCHANGED <<vars, size, db, uses, line>>

RedisBorrow(c) ==
  /\ WantsRedis(c) /\ RedisFree(uses[c])
  /\ line' = [line EXCEPT ![c] = uses[c]]
  /\ UNCHANGED <<vars, size, db, client, clients, building, uses>>

\* Mutant: flush_counters keeps its connection for the loop.
RedisWorkHolding(c) ==
  /\ line[c] # None
  /\ \/ PingIncr(c) /\ GiveBack(c)
     \/ (FlushScan(c) \/ \E e \in Events : FlushTake(c, e)) /\ UNCHANGED poolVars

\* INCR, SCAN, GETDEL; the last may find its key gone.
RedisWork(c) ==
  /\ line[c] # None
  /\ \/ PingIncr(c) /\ GiveBack(c)
     \/ /\ \/ FlushScan(c)
           \/ \E e \in Events : FlushTake(c, e)
           \/ pc[c] = "take" /\ UNCHANGED vars
        /\ line' = [line EXCEPT ![c] = None]
        /\ UNCHANGED <<size, db, client, clients, building, uses>>

-----------------------------------------------------------------------------
\* sqlalchemy.exc.TimeoutError, or "No connection available."
PoolTimeout(c) ==
  /\ \/ WantsDb(c) /\ ~ DbFree
     \/ WantsRedis(c) /\ ~ RedisFree(uses[c])
  /\ Crash(c) /\ GiveBack(c)

PooledEnd(c) == line[c] = None /\ FlushEnd(c) /\ GiveBack(c)

PooledNext ==
  \/ \E c \in Calls :
       \/ (\E r \in Requests : Start(c, r)) /\ UNCHANGED poolVars
       \/ PooledRead(c) \/ DbCheckout(c) \/ DbWork(c)
       \/ GetClient(c) \/ NoClient(c) \/ InitRedis(c) \/ RedisBorrow(c) \/ RedisWork(c)
       \/ PooledEnd(c) \/ PoolTimeout(c)
       \/ Crash(c) /\ GiveBack(c)
  \/ (\E x \in Sessions : EndSession(x)) /\ UNCHANGED poolVars
  \/ Finished /\ UNCHANGED poolVars

PooledSpec == PooledInit /\ [][PooledNext]_<<vars, poolVars>>

-----------------------------------------------------------------------------
(* Properties *)

\* Every connection that is out belongs to a call that is in a transaction or a
\* command, whatever has failed before (tx: "One unit of work = one transaction").
PoolsOK ==
  /\ Cardinality(db) <= size.db
  /\ \A c \in db : pc[c] \in {"update", "incr", "write", "commit"}
  /\ client \in clients \cup {None} /\ clients \subseteq Calls \cup {Main}
  /\ \A c \in Calls :
       /\ uses[c] \in clients \cup {None}
       /\ line[c] # None => line[c] = uses[c] /\ pc[c] \in {"incr", "scan", "take"}

\* Calls wait for connections of two pools and for row locks, but never for each
\* other: of the calls that wait, one always waits for a call that can go on
\* (record_ping_redis holds a database connection while it waits for Redis,
\* flush_counters one of either pool, never both).
CannotGoOn(c, S) ==
  \/ WantsDb(c) /\ ~ DbFree /\ db \subseteq S
  \/ WantsRedis(c) /\ ~ RedisFree(uses[c]) /\ Borrowed(uses[c]) \subseteq S
  \/ c \in db /\ Holders(held, c, Wanted(c)) \cap S # {}
NoCircle == \A S \in (SUBSET Calls) \ {{}} : \E c \in S : ~ CannotGoOn(c, S)

\* "A blocking pool makes extra threads wait for a free connection instead of
\* opening a new one per thread" (redis_client.py): the commands that run never
\* use more connections than the pool has, once init_redis has been called first;
\* when calls race to build the client, each of them may bring a pool.
RedisBounded ==
  LET running == Cardinality({c \in Calls : line[c] # None})
  IN  /\ Main \in clients => clients = {Main} /\ running <= size.redis
      /\ running <= Cardinality(clients) * size.redis
=============================================================================
