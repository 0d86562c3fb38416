---------------------------- MODULE SeatsProofs ----------------------------
(***************************************************************************)
(* Whatever signs up, buys, watches and leaves at once, for any number of  *)
(* callers: one user for an address, one active subscription for a user,   *)
(* one payment for a key, no more open sessions than the plan has seats,   *)
(* every session closed by one call, and nobody but a bulk close on a      *)
(* cycle of waiting calls.                                                 *)
(*                                                                         *)
(* The invariant is in parts, of which the later rest on the first: what   *)
(* each call is about and has locked where it is (Shape); the addresses;   *)
(* the subscriptions; their payments; the seats; what has been closed.     *)
(***************************************************************************)
EXTENDS Seats, FiniteSetTheorems, SequenceTheorems, TLAPS

-----------------------------------------------------------------------------
(* Where a call is. *)

\* The order of the operations of a script: each comes once.
Rank(r) == IF r.op = "event" THEN 0 ELSE IF r.op = "register" THEN 1
           ELSE IF r.op = "purchase" THEN 2 ELSE 3

InOrder(r, s) == /\ \A i \in DOMAIN s : Rank(r) < Rank(s[i])
                 /\ \A i, j \in DOMAIN s : i < j => Rank(s[i]) < Rank(s[j])

\* The places of each operation.
PlaceOf(r, label) ==
  \/ r.op = "event" /\ label = "seed"
  \/ r.op = "register" /\ label \in {"email", "commit"}
  \/ r.op = "purchase" /\ label \in {"user", "key", "active", "sub", "payment", "commit"}
  \/ r.op = "start" /\ label \in {"lock", "event", "count", "session", "commit"}
  \/ r.op = "end" /\ label \in {"lock", "commit"}
  \/ r.op = "bulk" /\ label \in {"match", "close", "commit"}

\* A call that has nothing: it is between two transactions.
Fresh == {"idle", "seed", "email", "user", "lock", "match", "done"}

\* A purchase that has locked its user, one that has found no subscription.
Buying(c)  == pc[c] \in {"key", "active", "sub", "payment", "commit"} /\ req[c].op = "purchase"
Opening(c) == pc[c] \in {"sub", "payment", "commit"} /\ req[c].op = "purchase"
Paying(c)  == pc[c] \in {"payment", "commit"} /\ req[c].op = "purchase"

\* A start that has locked its subscription, one that has found a seat.
Starting(c) == pc[c] \in {"event", "count", "session", "commit"} /\ req[c].op = "start"
Seated(c)   == pc[c] \in {"session", "commit"} /\ req[c].op = "start"

SubRows     == {s.id : s \in subs}
SessionRows == {x.id : x \in sessions}

UserLock(u) == [row |-> <<"user", u>>, mode |-> "for_update"]
SubLock(s)  == [row |-> <<"sub", s>>, mode |-> "for_update"]

Functions ==
  /\ script \in [Calls -> Seq(Operations)] /\ req \in [Calls -> Operations \cup {None}]
  /\ pc \in [Calls -> Labels] /\ sub \in [Calls -> Subscription \cup {None}]
  /\ rows \in [Calls -> SUBSET SessionIds] /\ closed \in [Calls -> SUBSET SessionIds]
  /\ DOMAIN held = Calls /\ DOMAIN reply = Calls

Tables ==
  /\ users \subseteq User /\ subs \subseteq Subscription /\ payments \subseteq Payment
  /\ betKeys \subseteq BetKeys /\ sessions \subseteq Session /\ ended \subseteq SessionRows
  /\ streamable \subseteq Events \cup Calls /\ today \in 0 .. LastDay

Locks(c) ==
  /\ pc[c] \in Fresh => held[c] = {}
  /\ Buying(c) => UserLock(UserOf(c)) \in held[c]
  /\ Starting(c) => SubLock(sub[c].id) \in held[c]
  /\ \A m \in held[c] : \/ m.mode = "key_share"
                        \/ m.row[1] \in {"sub", "session"}
                        \/ Buying(c) /\ m = UserLock(UserOf(c))

\* What a call may answer.
CountAndSub(n, s) == n \in 0 .. Cardinality(SessionIds) /\ s \in SubIds \cup {None}

\* What holds of one call.
CallOK(c) ==
  /\ pc[c] # "idle" => req[c] \in Operations /\ InOrder(req[c], script[c])
  /\ pc[c] \notin {"idle", "done"} => PlaceOf(req[c], pc[c])
  /\ pc[c] # "done" => reply[c].kind = "none"
  /\ CountAndSub(reply[c].count, reply[c].sub)
  /\ Opening(c) \/ pc[c] = "active" => req[c].plan \in Plans
  /\ Paying(c) => sub[c] \in Subscription /\ sub[c].id = c /\ sub[c].user = UserOf(c)
  /\ Starting(c) => sub[c] \in subs
  /\ Starting(c) /\ pc[c] # "event" => EventFor(c) \in Events \cup Calls
  /\ rows[c] \subseteq SessionRows /\ closed[c] \subseteq SessionRows
  /\ Locks(c)

Shape == Functions /\ Tables /\ \A c \in Calls : CallOK(c)

-----------------------------------------------------------------------------
(* The other parts of the invariant. *)

\* A sign-up that is about to commit has its address to itself.
Addresses ==
  /\ \A u, v \in users : u.email = v.email => u = v
  /\ \A u \in users : Canonical[u.email] = u.email
  /\ \A c \in Calls : At(c, "register", "commit") =>
       \A u \in users : u.email # Canonical[req[c].email]
  /\ \A c, d \in Calls : c # d /\ At(c, "register", "commit") /\ At(d, "register", "commit") =>
       Canonical[req[c].email] # Canonical[req[d].email]
  /\ \A c \in Calls : reply[c].kind = "registered" =>
       pc[c] = "done" /\ [id |-> c, email |-> Canonical[req[c].email]] \in users

\* A purchase has its user to itself, and the user has no subscription once it
\* has looked.
Purchases ==
  /\ \A s, t \in subs : s.id = t.id \/ s.user = t.user => s = t
  /\ \A c \in Calls : c \in SubRows => pc[c] = "done" \/ (pc[c] # "idle" /\ Rank(req[c]) = 3)
  /\ \A c \in Calls : Opening(c) => ActiveOf(UserOf(c)) = {}
  /\ \A c, d \in Calls : c # d /\ Buying(c) /\ Buying(d) => UserOf(c) # UserOf(d)

\* A purchase that is about to commit has its key to itself.
Answered(c) == reply[c].kind \in {"purchased", "replayed"}

Receipts ==
  /\ PaidOnce /\ BoughtOnce
  /\ \A c \in Calls : At(c, "purchase", "commit") => KeyOf(c) \notin UsedKeys
  /\ \A c, d \in Calls : c # d /\ At(c, "purchase", "commit") /\ At(d, "purchase", "commit") =>
       KeyOf(c) # KeyOf(d)
  /\ \A c \in Calls : Answered(c) =>
       pc[c] = "done" /\ req[c].op = "purchase" /\ KeyOf(c) \in UsedKeys

\* A start has its subscription to itself, and there is a seat left once it has
\* counted.
Seating ==
  /\ IsFiniteSet(sessions) /\ SeatCap
  /\ \A x \in sessions : \E s \in subs : s.id = x.sub
  /\ \A c \in Calls : c \in SessionRows => pc[c] = "done"
  /\ \A c, d \in Calls : c # d /\ Starting(c) /\ Starting(d) => sub[c].id # sub[d].id
  /\ \A c \in Calls : Seated(c) => Cardinality(OpenOn(sub[c])) < CapOf[sub[c].plan]

-----------------------------------------------------------------------------
(* What calls ask for. *)

\* What an operation's fields are.
OpFields(r) ==
  /\ r.op \in {"event", "register", "purchase", "start", "end", "bulk"}
  /\ r.op = "register" => r.email \in Emails
  /\ r.op = "purchase" => /\ r.user \in UserIds \cup {Own} /\ r.plan \in PlanIds
                          /\ r.months \in Months /\ r.key \in Keys \cup {Own}
  /\ r.op = "start" => r.user \in UserIds \cup {Own} /\ r.event \in EventIds \cup {Own}
  /\ r.op = "end" => r.session \in SessionIds
  /\ r.op = "bulk" => r.sessions \in SUBSET SessionIds

LEMMA EnrollSeq ==
  ASSUME NEW e \in Emails, NEW p \in PlanIds
  PROVE  /\ DOMAIN Enroll(e, p) = 1 .. 4 /\ Len(Enroll(e, p)) = 4
         /\ \A i \in 1 .. 4 : OpFields(Enroll(e, p)[i]) /\ Rank(Enroll(e, p)[i]) = i - 1
         /\ Enroll(e, p) = << Enroll(e, p)[1], Enroll(e, p)[2], Enroll(e, p)[3], Enroll(e, p)[4] >>
<1>1. 1 \in Months
  BY SeatsAssumption
<1>3. DOMAIN Enroll(e, p) = 1 .. 4 /\ Len(Enroll(e, p)) = 4
  BY DEF Enroll
<1>4. /\ Enroll(e, p)[1] = [op |-> "event"]
      /\ Enroll(e, p)[2] = [op |-> "register", email |-> e]
      /\ Enroll(e, p)[3] = [op |-> "purchase", user |-> Own, plan |-> p, months |-> 1, key |-> Own]
      /\ Enroll(e, p)[4] = [op |-> "start", user |-> Own, event |-> Own]
  BY DEF Enroll
<1>5. \A i \in 1 .. 4 : i = 1 \/ i = 2 \/ i = 3 \/ i = 4
  OBVIOUS
<1>6. \A i \in 1 .. 4 : OpFields(Enroll(e, p)[i]) /\ Rank(Enroll(e, p)[i]) = i - 1
  BY <1>1, <1>4, <1>5 DEF OpFields, Rank
<1>7. Enroll(e, p) = << Enroll(e, p)[1], Enroll(e, p)[2], Enroll(e, p)[3], Enroll(e, p)[4] >>
  BY <1>4 DEF Enroll
<1> QED
  BY <1>3, <1>6, <1>7

LEMMA SingleFields ==
  ASSUME NEW r \in Register \cup Purchase \cup StartOf \cup EndOf \cup Bulk
  PROVE  OpFields(r)
BY DEF Register, Purchase, StartOf, EndOf, Bulk, OpFields

LEMMA RequestSeq ==
  ASSUME NEW s \in Requests
  PROVE  /\ s \in Seq(Operations) /\ s # <<>>
         /\ \A i \in DOMAIN s : OpFields(s[i])
         /\ \A i, j \in DOMAIN s : i < j => Rank(s[i]) < Rank(s[j])
<1>0. \A i \in DOMAIN s : s[i] \in Operations
  BY DEF Operations
<1>1. CASE s \in Single
  <2>1. PICK r \in Register \cup Purchase \cup StartOf \cup EndOf \cup Bulk : s = <<r>>
    BY <1>1 DEF Single
  <2>2. DOMAIN s = {1} /\ s[1] = r /\ s # <<>> /\ OpFields(r)
    BY <2>1, SingleFields
  <2>3. s \in Seq(Operations)
    BY <1>0, <2>1, <2>2
  <2> QED
    BY <2>2, <2>3
<1>2. CASE s \notin Single
  <2>1. PICK e \in Emails, p \in PlanIds : s = Enroll(e, p)
    BY <1>2, SeatsAssumption
  <2>2. /\ DOMAIN s = 1 .. 4 /\ Len(s) = 4 /\ s = <<s[1], s[2], s[3], s[4]>>
        /\ \A i \in 1 .. 4 : OpFields(s[i]) /\ Rank(s[i]) = i - 1
    BY <2>1, EnrollSeq
  <2>3. s \in Seq(Operations) /\ s # <<>>
    <3> DEFINE a == s[1]
               b == s[2]
               c == s[3]
               d == s[4]
    <3>1. a \in Operations /\ b \in Operations /\ c \in Operations /\ d \in Operations
      BY <1>0, <2>2
    <3>2. s = <<a, b, c, d>>
      BY <2>2
    <3> HIDE DEF a, b, c, d
    <3> QED
      BY <3>1, <3>2
  <2>4. \A i, j \in DOMAIN s : i < j => Rank(s[i]) < Rank(s[j])
    BY <2>2
  <2> QED
    BY <2>2, <2>3, <2>4
<1> QED
  BY <1>1, <1>2

LEMMA OperationFields == \A r \in Operations : OpFields(r)
<1> TAKE r \in Operations
<1>1. PICK s \in Requests : r \in {s[i] : i \in DOMAIN s}
  BY DEF Operations
<1> QED
  BY <1>1, RequestSeq

\* What a call comes to next, and what is left then.
LEMMA NextOperation ==
  ASSUME NEW s \in Seq(Operations), s # <<>>,
         \A i, j \in DOMAIN s : i < j => Rank(s[i]) < Rank(s[j])
  PROVE  /\ Head(s) \in Operations /\ Tail(s) \in Seq(Operations)
         /\ InOrder(Head(s), Tail(s))
         /\ \A r : (\A i \in DOMAIN s : Rank(r) < Rank(s[i])) => Rank(r) < Rank(Head(s))
<1>1. Len(s) \in Nat /\ Len(s) > 0 /\ DOMAIN s = 1 .. Len(s) /\ Head(s) = s[1]
  OBVIOUS
<1>2. /\ Tail(s) \in Seq(Operations) /\ DOMAIN Tail(s) = 1 .. (Len(s) - 1)
      /\ \A i \in 1 .. (Len(s) - 1) : Tail(s)[i] = s[i + 1]
  OBVIOUS
<1>3. \A i \in 1 .. (Len(s) - 1) : i + 1 \in DOMAIN s /\ 1 \in DOMAIN s /\ 1 < i + 1
  BY <1>1
<1>4. InOrder(Head(s), Tail(s))
  BY <1>1, <1>2, <1>3 DEF InOrder
<1> QED
  BY <1>1, <1>2, <1>4

-----------------------------------------------------------------------------
(* One call goes on. *)

OnlyCall(c) ==
  \A d \in Calls \ {c} :
    /\ script'[d] = script[d] /\ req'[d] = req[d] /\ pc'[d] = pc[d] /\ held'[d] = held[d]
    /\ sub'[d] = sub[d] /\ rows'[d] = rows[d] /\ closed'[d] = closed[d] /\ reply'[d] = reply[d]

\* What the others are about stays what it is.
LEMMA OthersSame ==
  ASSUME NEW c, OnlyCall(c), NEW d \in Calls \ {c}
  PROVE  /\ UserOf(d)' = UserOf(d) /\ KeyOf(d)' = KeyOf(d) /\ EventFor(d)' = EventFor(d)
         /\ (Buying(d)' <=> Buying(d)) /\ (Opening(d)' <=> Opening(d))
         /\ (Paying(d)' <=> Paying(d)) /\ (Starting(d)' <=> Starting(d))
         /\ (Seated(d)' <=> Seated(d))
         /\ (Answered(d)' <=> Answered(d))
         /\ \A op, label : At(d, op, label)' <=> At(d, op, label)
BY DEF OnlyCall, UserOf, KeyOf, EventFor, Buying, Opening, Paying, Starting, Seated,
   Answered, At

LEMMA OneCallStep ==
  ASSUME Shape, NEW c \in Calls, OnlyCall(c), subs \subseteq subs', sessions \subseteq sessions',
         Functions', Tables', CallOK(c)'
  PROVE  Shape'
<1>1. SessionRows \subseteq SessionRows'
  BY DEF SessionRows
<1>2. ASSUME NEW d \in Calls \ {c}
      PROVE  CallOK(d)'
  <2>1. CallOK(d)
    BY DEF Shape
  <2>2. Locks(d)'
    BY <2>1, OthersSame DEF CallOK, Locks, OnlyCall
  <2> QED
    BY <1>1, <2>1, <2>2, OthersSame DEF CallOK, OnlyCall
<1> QED
  BY <1>2 DEF Shape

\* The call has ended its transaction, and has answered or gone on to its next
\* operation.
Settled(c) ==
  /\ pc[c] \notin {"idle", "done"} /\ OnlyCall(c) /\ Functions' /\ CallOK(c)'
  /\ held'[c] = {} /\ sub'[c] = None /\ rows'[c] = {} /\ closed'[c] = {}
  /\ \/ pc'[c] = "done" /\ req'[c] = req[c]
     \/ /\ pc'[c] \in Fresh \ {"idle", "done"} /\ reply'[c] = reply[c]
        /\ Rank(req[c]) < Rank(req'[c])

\* Nothing that is said of calls in the middle of a transaction is said of a
\* call that has nothing.
LEMMA FreshIsFree ==
  ASSUME NEW c, pc[c] \in Fresh
  PROVE  /\ ~ Buying(c) /\ ~ Opening(c) /\ ~ Paying(c) /\ ~ Starting(c) /\ ~ Seated(c)
         /\ pc[c] # "active" /\ \A op : ~ At(c, op, "commit")
BY DEF Fresh, Buying, Opening, Paying, Starting, Seated, At

LEMMA AnswerSettles ==
  ASSUME Shape, NEW c \in Calls, pc[c] \notin {"idle", "done"}, NEW kind, NEW n, NEW s, CountAndSub(n, s),
         Answer(c, kind, n, s)
  PROVE  Settled(c) /\ pc'[c] = "done" /\ reply'[c] = [kind |-> kind, count |-> n, sub |-> s]
<1>1. /\ pc' = [pc EXCEPT ![c] = "done"]
      /\ reply' = [reply EXCEPT ![c] = [kind |-> kind, count |-> n, sub |-> s]]
      /\ held' = [held EXCEPT ![c] = {}] /\ sub' = [sub EXCEPT ![c] = None]
      /\ rows' = [rows EXCEPT ![c] = {}] /\ closed' = [closed EXCEPT ![c] = {}]
      /\ script' = script /\ req' = req
  BY DEF Answer, Go, EndTransaction
<1>2. Functions /\ CallOK(c)
  BY DEF Shape
<1>3. OnlyCall(c) /\ Functions'
  BY <1>1, <1>2 DEF OnlyCall, Functions, Labels
<1>4. /\ pc'[c] = "done" /\ reply'[c] = [kind |-> kind, count |-> n, sub |-> s]
      /\ held'[c] = {} /\ sub'[c] = None /\ rows'[c] = {} /\ closed'[c] = {}
      /\ req'[c] = req[c] /\ script'[c] = script[c]
  BY <1>1, <1>2 DEF Functions
<1>5. /\ ~ Buying(c)' /\ ~ Opening(c)' /\ ~ Paying(c)' /\ ~ Starting(c)' /\ pc'[c] # "active"
  BY <1>4 DEF Buying, Opening, Paying, Starting
<1>6. CallOK(c)'
  BY <1>2, <1>4, <1>5 DEF CallOK, Locks
<1> QED
  BY <1>3, <1>4, <1>6 DEF Settled

LEMMA FirstPlace ==
  ASSUME NEW r \in Operations
  PROVE  /\ FirstLabel(r) \in Fresh \ {"idle", "done"} /\ FirstLabel(r) \in Labels
         /\ PlaceOf(r, FirstLabel(r))
<1>1. r.op \in {"event", "register", "purchase", "start", "end", "bulk"}
  BY OperationFields DEF OpFields
<1>2. FirstLabel(r) = IF r.op = "event" THEN "seed" ELSE IF r.op = "register" THEN "email"
         ELSE IF r.op = "purchase" THEN "user" ELSE IF r.op = "bulk" THEN "match" ELSE "lock"
  BY <1>1 DEF FirstLabel
<1> QED
  BY <1>1, <1>2 DEF Fresh, Labels, PlaceOf

\* The operation has returned and is not the last of its script.
LEMMA GoingOnSettles ==
  ASSUME Shape, NEW c \in Calls, pc[c] \notin {"idle", "done"}, script[c] # <<>>,
         script' = [script EXCEPT ![c] = Tail(@)],
         req' = [req EXCEPT ![c] = Head(script[c])],
         Go(c, FirstLabel(Head(script[c]))), EndTransaction(c), UNCHANGED reply
  PROVE  Settled(c) /\ pc'[c] # "done" /\ script'[c] = Tail(script[c])
<1>1. Functions /\ CallOK(c)
  BY DEF Shape
<1>2. script[c] \in Seq(Operations) /\ InOrder(req[c], script[c])
  BY <1>1 DEF Functions, CallOK
<1> DEFINE r == Head(script[c])
<1>3. /\ r \in Operations /\ Tail(script[c]) \in Seq(Operations)
      /\ InOrder(r, Tail(script[c])) /\ Rank(req[c]) < Rank(r)
  BY <1>2, NextOperation DEF InOrder
<1>4. FirstLabel(r) \in Fresh \ {"idle", "done"} /\ FirstLabel(r) \in Labels
  BY <1>3, FirstPlace
<1>5. /\ pc' = [pc EXCEPT ![c] = FirstLabel(r)] /\ reply' = reply
      /\ held' = [held EXCEPT ![c] = {}] /\ sub' = [sub EXCEPT ![c] = None]
      /\ rows' = [rows EXCEPT ![c] = {}] /\ closed' = [closed EXCEPT ![c] = {}]
      /\ script' = [script EXCEPT ![c] = Tail(script[c])] /\ req' = [req EXCEPT ![c] = r]
  BY DEF Go, EndTransaction
<1> HIDE DEF r
<1>6. OnlyCall(c) /\ Functions'
  BY <1>1, <1>3, <1>4, <1>5 DEF OnlyCall, Functions
<1>7. /\ pc'[c] = FirstLabel(r) /\ reply'[c] = reply[c]
      /\ held'[c] = {} /\ sub'[c] = None /\ rows'[c] = {} /\ closed'[c] = {}
      /\ req'[c] = r /\ script'[c] = Tail(script[c])
  BY <1>1, <1>5 DEF Functions
<1>8. PlaceOf(req'[c], pc'[c])
  BY <1>3, <1>7, FirstPlace
<1>9. /\ ~ Buying(c)' /\ ~ Opening(c)' /\ ~ Paying(c)' /\ ~ Starting(c)' /\ pc'[c] # "active"
  BY <1>4, <1>7 DEF Fresh, Buying, Opening, Paying, Starting
<1>10. CallOK(c)'
  BY <1>1, <1>3, <1>4, <1>7, <1>8, <1>9 DEF CallOK, Locks
<1> QED
  BY <1>3, <1>4, <1>6, <1>7, <1>10 DEF Settled

LEMMA TablesStay == Tables /\ UNCHANGED database => Tables'
BY DEF Tables, database, SessionRows

LEMMA NoCountNoSub == \E n : n = 0 /\ CountAndSub(n, None)
<1>1. Cardinality(SessionIds) \in Nat
  BY SeatsAssumption, FS_CardinalityType
<1> QED
  BY <1>1 DEF CountAndSub

Unanswered == [kind |-> "unanswered", count |-> 0, sub |-> None]

LEMMA CommittedSettles ==
  ASSUME Shape, NEW c \in Calls, pc[c] \notin {"idle", "done"}, NEW kind, NEW n, NEW s,
         CountAndSub(n, s), Committed(c, kind, n, s)
  PROVE  /\ Settled(c)
         /\ pc'[c] = "done" =>
              \/ reply'[c] = [kind |-> kind, count |-> n, sub |-> s]
              \/ reply'[c] = Unanswered
         /\ pc'[c] = "done" => reply'[c].kind \in {kind, "unanswered"}
<1>1. PICK zero : zero = 0 /\ CountAndSub(zero, None)
  BY NoCountNoSub
<1>2. CASE Answer(c, kind, n, s)
  BY <1>2, AnswerSettles
<1>3. CASE Answer(c, "unanswered", zero, None)
  <2>1. Settled(c) /\ reply'[c] = [kind |-> "unanswered", count |-> zero, sub |-> None]
    BY <1>1, <1>3, AnswerSettles
  <2> QED
    BY <1>1, <2>1 DEF Unanswered
<1>4. CASE ~ Answer(c, kind, n, s) /\ ~ Answer(c, "unanswered", zero, None)
  BY <1>1, <1>4, GoingOnSettles DEF Committed, Return
<1>5. [kind |-> kind, count |-> n, sub |-> s].kind = kind /\ Unanswered.kind = "unanswered"
  BY DEF Unanswered
<1> QED
  BY <1>2, <1>3, <1>4, <1>5

LEMMA ReturnSettles ==
  ASSUME Shape, NEW c \in Calls, pc[c] \notin {"idle", "done"}, NEW kind, NEW n, NEW s,
         CountAndSub(n, s),
         Return(c, kind, n, s)
  PROVE  Settled(c) /\ (pc'[c] = "done" => reply'[c] = [kind |-> kind, count |-> n, sub |-> s])
<1>1. CASE Answer(c, kind, n, s)
  BY <1>1, AnswerSettles
<1>2. CASE ~ Answer(c, kind, n, s)
  BY <1>2, GoingOnSettles DEF Return
<1> QED
  BY <1>1, <1>2

LEMMA RaiseSettles ==
  ASSUME Shape, NEW c \in Calls, pc[c] \notin {"idle", "done"}, NEW kind, Raise(c, kind)
  PROVE  /\ Settled(c) /\ pc'[c] = "done" /\ reply'[c].kind = kind /\ UNCHANGED database
         /\ Shape'
<1>1. PICK zero : CountAndSub(zero, None) /\ Answer(c, kind, zero, None)
  BY NoCountNoSub DEF Raise
<1>2. Settled(c) /\ pc'[c] = "done" /\ reply'[c] = [kind |-> kind, count |-> zero, sub |-> None]
  BY <1>1, AnswerSettles
<1>3. UNCHANGED database /\ Tables'
  BY TablesStay DEF Shape, Raise, database
<1> QED
  BY <1>2, <1>3, OneCallStep DEF Settled, database

\* The call has come to its next statement.
Moved(c, label) ==
  /\ OnlyCall(c) /\ Functions' /\ pc'[c] = label
  /\ req'[c] = req[c] /\ script'[c] = script[c] /\ reply'[c] = reply[c]

LEMMA StatementMoves ==
  ASSUME Shape, NEW c \in Calls, NEW label \in Labels, Statement(c, label)
  PROVE  /\ Moved(c, label) /\ UNCHANGED database
         /\ held'[c] = held[c] \cup Wanted(c)
         /\ sub'[c] = sub[c] /\ rows'[c] = rows[c] /\ closed'[c] = closed[c]
<1>1. /\ pc' = [pc EXCEPT ![c] = label] /\ held' = [held EXCEPT ![c] = @ \cup Wanted(c)]
      /\ UNCHANGED <<database, script, req, sub, rows, closed, reply>>
  BY DEF Statement, Go, Take
<1>2. Functions
  BY DEF Shape
<1>3. OnlyCall(c) /\ Functions'
  BY <1>1, <1>2 DEF OnlyCall, Functions
<1> QED
  BY <1>1, <1>2, <1>3 DEF Moved, Functions

LEMMA StartShape ==
  ASSUME Shape, NEW c \in Calls, NEW s \in Requests, Start(c, s)
  PROVE  /\ Shape' /\ OnlyCall(c) /\ UNCHANGED database /\ reply' = reply
         /\ pc[c] = "idle" /\ pc'[c] \in Fresh \ {"idle", "done"}
<1> DEFINE r == Head(s)
<1>1. Functions /\ CallOK(c) /\ Tables
  BY DEF Shape
<1>2. /\ s \in Seq(Operations) /\ s # <<>>
      /\ \A i, j \in DOMAIN s : i < j => Rank(s[i]) < Rank(s[j])
  BY RequestSeq
<1>3. r \in Operations /\ Tail(s) \in Seq(Operations) /\ InOrder(r, Tail(s))
  BY <1>2, NextOperation
<1>4. FirstLabel(r) \in Fresh \ {"idle", "done"} /\ FirstLabel(r) \in Labels
      /\ PlaceOf(r, FirstLabel(r))
  BY <1>3, FirstPlace
<1>5. /\ pc[c] = "idle" /\ pc' = [pc EXCEPT ![c] = FirstLabel(r)]
      /\ req' = [req EXCEPT ![c] = r] /\ script' = [script EXCEPT ![c] = Tail(s)]
      /\ UNCHANGED <<held, sub, rows, closed, reply>>
  BY DEF Start, Go, work
<1> HIDE DEF r
<1>6. OnlyCall(c) /\ Functions'
  BY <1>1, <1>3, <1>4, <1>5 DEF OnlyCall, Functions
<1>7. pc'[c] = FirstLabel(r) /\ req'[c] = r /\ script'[c] = Tail(s)
  BY <1>1, <1>5 DEF Functions
<1>8. held[c] = {} /\ held'[c] = {}
  BY <1>1, <1>5 DEF CallOK, Locks, Fresh
<1>9. /\ ~ Buying(c)' /\ ~ Opening(c)' /\ ~ Paying(c)' /\ ~ Starting(c)' /\ pc'[c] # "active"
  BY <1>4, <1>7 DEF Fresh, Buying, Opening, Paying, Starting
<1>10. UNCHANGED database /\ SessionRows' = SessionRows
  BY DEF Start, database, SessionRows
<1>11. CallOK(c)'
  BY <1>1, <1>3, <1>4, <1>5, <1>7, <1>8, <1>9, <1>10 DEF CallOK, Locks
<1>12. Tables'
  BY <1>1, <1>10, TablesStay
<1> QED
  BY <1>4, <1>5, <1>6, <1>7, <1>10, <1>11, <1>12, OneCallStep DEF database

\* How a call that answers, or goes on to its next operation, may leave the
\* tables; and one that goes on in its transaction.
Special == {"registered", "purchased", "replayed"}

Plain(c) == Settled(c) /\ (pc'[c] = "done" => reply'[c].kind \notin Special)

Working(c, op) ==
  /\ pc[c] \notin {"idle", "done"} /\ pc'[c] \notin {"idle", "done"}
  /\ Moved(c, pc'[c]) /\ req[c].op = op
  /\ UNCHANGED database

LEMMA RaiseIsPlain ==
  ASSUME Shape, NEW c \in Calls, pc[c] \notin {"idle", "done"}, NEW kind, kind \notin Special, Raise(c, kind)
  PROVE  Shape' /\ Plain(c) /\ UNCHANGED database
BY RaiseSettles DEF Plain, database

LEMMA StatementWorks ==
  ASSUME Shape, NEW c \in Calls, pc[c] \notin {"idle", "done"},
         NEW label \in Labels \ {"idle", "done"}, Statement(c, label), CallOK(c)'
  PROVE  Shape' /\ Working(c, req[c].op) /\ pc'[c] = label
<1>1. Moved(c, label) /\ UNCHANGED database
  BY StatementMoves
<1>2. Tables'
  BY <1>1, TablesStay DEF Shape
<1> QED
  BY <1>1, <1>2, OneCallStep DEF Moved, Working, database

LEMMA WantsNothing ==
  ASSUME NEW c, pc[c] \notin {"user", "sub", "payment", "lock", "session"}
  PROVE  Wanted(c) = {}
BY DEF Wanted, At

-----------------------------------------------------------------------------
(* What calls are about: sign-ups. *)

LEMMA SignUpShape ==
  ASSUME Shape, NEW c \in Calls, SignUp(c)
  PROVE  /\ Shape'
         /\ \/ Plain(c) /\ UNCHANGED <<users, subs, payments, betKeys, sessions, ended>>
            \/ RegisterInsert(c) /\ Working(c, "register") /\ pc'[c] = "commit"
            \/ /\ RegisterCommit(c) /\ Settled(c)
               /\ pc'[c] = "done" => reply'[c].kind \in {"registered", "unanswered"}
<1>0. Functions /\ CallOK(c) /\ Tables
  BY DEF Shape
<1>1. CASE SeedEvent(c)
  <2>1. PICK zero : zero = 0 /\ CountAndSub(zero, None)
    BY NoCountNoSub
  <2>2. pc[c] \notin {"idle", "done"} /\ Committed(c, "seeded", zero, None)
    BY <1>1, <2>1 DEF SeedEvent, At
  <2>3. Settled(c) /\ (pc'[c] = "done" => reply'[c].kind \in {"seeded", "unanswered"})
    BY <2>1, <2>2, CommittedSettles
  <2>4. Tables' /\ UNCHANGED <<users, subs, payments, betKeys, sessions, ended>>
    BY <1>0, <1>1 DEF SeedEvent, Tables, SessionRows
  <2> QED
    BY <2>3, <2>4, OneCallStep DEF Settled, Plain, Special
<1>2. CASE RegisterInsert(c)
  <2>1. At(c, "register", "email")
    BY <1>2 DEF RegisterInsert
  <2>2. CASE Raise(c, "rejected")
    BY <2>1, <2>2, RaiseIsPlain DEF At, Special, database
  <2>3. CASE Statement(c, "commit")
    <3>1. "commit" \in Labels \ {"idle", "done"}
      BY DEF Labels
    <3>2. /\ Moved(c, "commit") /\ held'[c] = held[c] \cup Wanted(c)
          /\ rows'[c] = rows[c] /\ closed'[c] = closed[c] /\ UNCHANGED database
      BY <2>3, <3>1, StatementMoves
    <3>3. held'[c] = {} /\ SessionRows' = SessionRows
      BY <1>0, <2>1, <3>2, WantsNothing DEF At, CallOK, Locks, Fresh, SessionRows, database
    <3>4. CallOK(c)'
      BY <1>0, <2>1, <3>2, <3>3 DEF At, CallOK, Locks, Moved, PlaceOf, Buying, Opening, Paying,
         Starting, Fresh
    <3> QED
      BY <1>2, <2>1, <2>3, <3>1, <3>4, StatementWorks DEF At
  <2> QED
    BY <1>2, <2>2, <2>3 DEF RegisterInsert
<1>3. CASE RegisterCommit(c)
  <2>1. PICK zero : zero = 0 /\ CountAndSub(zero, None)
    BY NoCountNoSub
  <2>2. At(c, "register", "commit") /\ Committed(c, "registered", zero, None)
    BY <1>3, <2>1 DEF RegisterCommit
  <2>3. Settled(c) /\ (pc'[c] = "done" => reply'[c].kind \in {"registered", "unanswered"})
    BY <2>1, <2>2, CommittedSettles DEF At
  <2>4. Tables' /\ UNCHANGED <<subs, sessions>>
    <3>1. req[c].email \in Emails
      BY <1>0, <2>2, OperationFields DEF At, CallOK, OpFields
    <3>2. [id |-> c, email |-> Canonical[req[c].email]] \in User
      BY <3>1, SeatsAssumption DEF User
    <3> QED
      BY <1>0, <1>3, <3>2 DEF RegisterCommit, Tables, SessionRows
  <2> QED
    BY <1>3, <2>3, <2>4, OneCallStep DEF Settled
<1> QED
  BY <1>1, <1>2, <1>3 DEF SignUp

-----------------------------------------------------------------------------
(* What calls are about: purchases. *)

LEMMA PurchaseFields ==
  ASSUME Shape, NEW c \in Calls, pc[c] # "idle", req[c].op = "purchase"
  PROVE  /\ UserOf(c) \in UserIds \cup Calls /\ KeyOf(c) \in Keys \cup Calls
         /\ req[c].plan \in PlanIds /\ req[c].months \in Months
BY OperationFields DEF Shape, CallOK, OpFields, UserOf, KeyOf

\* A purchase keeps the lock of its user.
LEMMA BuyingLocks ==
  ASSUME Shape, NEW c \in Calls, Buying(c), req'[c] = req[c],
         pc'[c] \in {"active", "sub", "payment", "commit"},
         NEW more, \A m \in more : m.mode = "key_share", held'[c] = held[c] \cup more
  PROVE  Locks(c)' /\ Buying(c)' /\ UserOf(c)' = UserOf(c)
<1>1. Locks(c) /\ UserOf(c)' = UserOf(c) /\ Buying(c)'
  BY DEF Shape, CallOK, UserOf, Buying
<1>2. UserLock(UserOf(c))' = UserLock(UserOf(c))
  BY <1>1 DEF UserLock
<1>3. ~ Starting(c)' /\ pc'[c] \notin Fresh
  BY <1>1 DEF Starting, Buying, Fresh
<1> QED
  BY <1>1, <1>2, <1>3 DEF Locks

\* A purchase comes to its next statement.
LEMMA BuyingMoves ==
  ASSUME Shape, NEW c \in Calls, Buying(c), Moved(c, pc'[c]), subs' = subs, sessions' = sessions,
         pc'[c] \in {"active", "sub", "payment", "commit"},
         NEW more, \A m \in more : m.mode = "key_share", held'[c] = held[c] \cup more,
         req[c].plan \in Plans, rows'[c] = rows[c], closed'[c] = closed[c],
         Paying(c)' => sub'[c] \in Subscription /\ sub'[c].id = c /\ sub'[c].user = UserOf(c)
  PROVE  CallOK(c)'
<1>1. CallOK(c) /\ req'[c] = req[c] /\ script'[c] = script[c] /\ reply'[c] = reply[c]
  BY DEF Shape, Moved
<1>2. Locks(c)' /\ Buying(c)' /\ UserOf(c)' = UserOf(c)
  BY <1>1, BuyingLocks
<1>3. SessionRows' = SessionRows /\ ~ Starting(c)'
  BY <1>2 DEF SessionRows, Buying, Starting
<1> QED
  BY <1>1, <1>2, <1>3 DEF CallOK, PlaceOf, Buying

\* What a purchase has found when it comes to its next statement.
BuyingStep(c) ==
  \/ pc[c] = "user" /\ pc'[c] = "key" /\ Granted(c) /\ UserOf(c) \in UserRows
  \/ pc[c] = "key" /\ pc'[c] = "active" /\ KeyOf(c) \notin UsedKeys
  \/ pc[c] = "active" /\ pc'[c] = "sub" /\ ActiveOf(UserOf(c)) = {}
  \/ pc[c] = "sub" /\ pc'[c] = "payment" /\ ActiveOf(UserOf(c)) = {}
  \/ /\ pc[c] = "payment" /\ pc'[c] = "commit"
     /\ KeyOf(c) \notin UsedKeys /\ SameKeyInFlight(c) = {}

LEMMA BuyShape ==
  ASSUME Shape, NEW c \in Calls, Buy(c)
  PROVE  /\ Shape'
         /\ \/ Plain(c) /\ UNCHANGED database
            \/ Working(c, "purchase") /\ BuyingStep(c)
            \/ /\ At(c, "purchase", "key") /\ Settled(c) /\ UNCHANGED database
               /\ KeyOf(c) \in UsedKeys
               /\ LET bought == {p.sub : p \in {x \in payments : x.key = KeyOf(c)}}
                  IN  \E x \in IF bought = {} THEN {None} ELSE bought :
                        pc'[c] = "done" => reply'[c].kind = "replayed" /\ reply'[c].sub = x
            \/ /\ PurchaseCommit(c) /\ Settled(c)
               /\ pc'[c] = "done" => \/ reply'[c].kind = "purchased" /\ reply'[c].sub = c
                                     \/ reply'[c].kind = "unanswered"
<1>0. Functions /\ CallOK(c) /\ Tables
  BY DEF Shape
<1>1. CASE PurchaseLockUser(c)
  <2>1. At(c, "purchase", "user")
    BY <1>1 DEF PurchaseLockUser
  <2>2. CASE Raise(c, "rejected")
    BY <2>1, <2>2, RaiseIsPlain DEF At, Special
  <2>3. CASE UserOf(c) \in UserRows /\ Statement(c, "key")
    <3>1. "key" \in Labels \ {"idle", "done"}
      BY DEF Labels
    <3>2. /\ Moved(c, "key") /\ held'[c] = held[c] \cup Wanted(c)
          /\ rows'[c] = rows[c] /\ closed'[c] = closed[c] /\ UNCHANGED database
      BY <2>3, <3>1, StatementMoves
    <3>3. Wanted(c) = {UserLock(UserOf(c))}
      BY <2>1, <2>3 DEF At, Wanted, ForUpdate, UserLock
    <3>4. held'[c] = {UserLock(UserOf(c))} /\ UserOf(c)' = UserOf(c)
          /\ UserLock(UserOf(c))' = UserLock(UserOf(c))
      BY <1>0, <2>1, <3>2, <3>3 DEF At, CallOK, Locks, Fresh, Moved, UserOf, UserLock
    <3>5. Buying(c)' /\ ~ Opening(c)' /\ ~ Paying(c)' /\ ~ Starting(c)' /\ pc'[c] # "active"
          /\ pc'[c] \notin Fresh
      BY <2>1, <3>2 DEF At, Buying, Opening, Paying, Starting, Fresh, Moved
    <3>6. SessionRows' = SessionRows
      BY <3>2 DEF SessionRows, database
    <3>7. CallOK(c)'
      BY <1>0, <2>1, <3>2, <3>4, <3>5, <3>6 DEF At, CallOK, Locks, Moved, PlaceOf
    <3> QED
      BY <1>1, <2>1, <2>3, <3>1, <3>7, StatementWorks DEF At, BuyingStep, PurchaseLockUser
  <2> QED
    BY <1>1, <2>2, <2>3 DEF PurchaseLockUser
<1>2. CASE PurchaseCheckKey(c)
  <2>1. At(c, "purchase", "key")
    BY <1>2 DEF PurchaseCheckKey
  <2>2. CASE Raise(c, "rejected")
    BY <2>1, <2>2, RaiseIsPlain DEF At, Special
  <2>3. CASE KeyOf(c) \notin UsedKeys /\ req[c].plan \in Plans /\ Statement(c, "active")
    <3>1. "active" \in Labels \ {"idle", "done"}
      BY DEF Labels
    <3>2. /\ Moved(c, "active") /\ held'[c] = held[c] \cup Wanted(c) /\ Wanted(c) = {}
          /\ rows'[c] = rows[c] /\ closed'[c] = closed[c] /\ UNCHANGED database
          /\ subs' = subs /\ sessions' = sessions
      BY <2>1, <2>3, <3>1, StatementMoves, WantsNothing DEF At, database
    <3>3. /\ Buying(c) /\ ~ Paying(c)' /\ pc'[c] = "active" /\ Moved(c, pc'[c])
          /\ \A m \in Wanted(c) : m.mode = "key_share"
      BY <2>1, <3>2 DEF At, Buying, Paying, Moved
    <3>4. CallOK(c)'
      BY <2>3, <3>2, <3>3, BuyingMoves
    <3> QED
      BY <2>1, <2>3, <3>1, <3>4, StatementWorks DEF At, BuyingStep
  <2>4. CASE /\ ~ Raise(c, "rejected")
             /\ ~ (KeyOf(c) \notin UsedKeys /\ req[c].plan \in Plans /\ Statement(c, "active"))
    <3> DEFINE bought == {p.sub : p \in {x \in payments : x.key = KeyOf(c)}}
               told == IF bought = {} THEN {None} ELSE bought
    <3>1. KeyOf(c) \in UsedKeys /\ UNCHANGED database
      BY <1>2, <2>4 DEF PurchaseCheckKey
    <3>2. PICK x \in told : Return(c, "replayed", 0, x)
      BY <1>2, <2>4 DEF PurchaseCheckKey
    <3>3. told \subseteq SubIds \cup {None}
      BY <1>0 DEF Tables, Payment
    <3>4. PICK zero : zero = 0 /\ CountAndSub(zero, x)
      BY <3>2, <3>3, NoCountNoSub DEF CountAndSub
    <3> HIDE DEF told
    <3>5. Return(c, "replayed", zero, x) /\ pc[c] \notin {"idle", "done"}
      BY <2>1, <3>2, <3>4 DEF At
    <3>6. /\ Settled(c)
          /\ pc'[c] = "done" => reply'[c] = [kind |-> "replayed", count |-> zero, sub |-> x]
      BY <3>4, <3>5, ReturnSettles
    <3>7. Shape'
      BY <1>0, <3>1, <3>6, OneCallStep, TablesStay DEF Settled, database
    <3>8. pc'[c] = "done" => reply'[c].kind = "replayed" /\ reply'[c].sub = x
      BY <3>6
    <3> QED
      BY <2>1, <3>1, <3>2, <3>6, <3>7, <3>8 DEF told
  <2> QED
    BY <2>2, <2>3, <2>4
<1>3. CASE PurchaseCheckActive(c)
  <2>1. pc[c] = "active" /\ req[c].op = "purchase"
    BY <1>3 DEF PurchaseCheckActive, At
  <2>2. CASE Raise(c, "active")
    BY <2>1, <2>2, RaiseIsPlain DEF Special
  <2>3. CASE ActiveOf(UserOf(c)) = {} /\ Statement(c, "sub")
    <3>1. "sub" \in Labels \ {"idle", "done"}
      BY DEF Labels
    <3>2. /\ Moved(c, "sub") /\ held'[c] = held[c] \cup Wanted(c) /\ Wanted(c) = {}
          /\ rows'[c] = rows[c] /\ closed'[c] = closed[c] /\ UNCHANGED database
          /\ subs' = subs /\ sessions' = sessions
      BY <2>1, <2>3, <3>1, StatementMoves, WantsNothing DEF database
    <3>3. /\ Buying(c) /\ ~ Paying(c)' /\ pc'[c] = "sub" /\ req[c].plan \in Plans
          /\ Moved(c, pc'[c]) /\ \A m \in Wanted(c) : m.mode = "key_share"
      BY <1>0, <2>1, <3>2 DEF Buying, Paying, Moved, CallOK
    <3>4. CallOK(c)'
      BY <3>2, <3>3, BuyingMoves
    <3> QED
      BY <2>1, <2>3, <3>1, <3>4, StatementWorks DEF BuyingStep
  <2> QED
    BY <1>3, <2>2, <2>3 DEF PurchaseCheckActive
<1>4. CASE PurchaseInsertSub(c)
  <2> DEFINE row == [id |-> c, user |-> UserOf(c), plan |-> req[c].plan,
                     ends |-> today + req[c].months]
  <2>1. pc[c] = "sub" /\ req[c].op = "purchase" /\ Buying(c) /\ Opening(c)
    BY <1>4 DEF PurchaseInsertSub, At, Buying, Opening
  <2>2. CASE Raise(c, "failed")
    BY <2>1, <2>2, RaiseIsPlain DEF Special
  <2>3. CASE ~ Raise(c, "failed")
    <3>1. /\ ActiveOf(UserOf(c)) = {}
          /\ pc' = [pc EXCEPT ![c] = "payment"] /\ held' = [held EXCEPT ![c] = @ \cup Wanted(c)]
          /\ sub' = [sub EXCEPT ![c] = row]
          /\ UNCHANGED <<database, script, req, rows, closed, reply>>
      BY <1>4, <2>3 DEF PurchaseInsertSub, Go, Take
    <3>2. row \in Subscription
      <4>1. UserOf(c) \in UserIds \cup Calls /\ req[c].plan \in Plans /\ req[c].months \in Months
        BY <1>0, <2>1, PurchaseFields DEF CallOK
      <4>2. today + req[c].months \in EndDates
        BY <1>0, <4>1 DEF Tables, EndDates
      <4> QED
        BY <4>1, <4>2 DEF Subscription, SubIds
    <3>3. row.id = c /\ row.user = UserOf(c)
      OBVIOUS
    <3> HIDE DEF row
    <3>4. OnlyCall(c) /\ Functions'
      BY <1>0, <3>1, <3>2 DEF OnlyCall, Functions, Labels
    <3>5. /\ Moved(c, "payment") /\ pc'[c] = "payment" /\ sub'[c] = row
          /\ held'[c] = held[c] \cup Wanted(c) /\ rows'[c] = rows[c] /\ closed'[c] = closed[c]
      BY <1>0, <3>1, <3>4 DEF Moved, Functions
    <3>6. \A m \in Wanted(c) : m.mode = "key_share"
      BY <2>1 DEF Wanted, KeyShare, At
    <3>7. UNCHANGED database /\ subs' = subs /\ sessions' = sessions /\ req[c].plan \in Plans
      BY <1>0, <2>1, <3>1 DEF database, CallOK
    <3>8. CallOK(c)'
      BY <2>1, <3>2, <3>3, <3>5, <3>6, <3>7, BuyingMoves
    <3>9. Tables' /\ Shape'
      BY <1>0, <3>4, <3>7, <3>8, TablesStay, OneCallStep
    <3> QED
      BY <2>1, <3>1, <3>5, <3>7, <3>9 DEF Working, BuyingStep
  <2> QED
    BY <2>2, <2>3
<1>5. CASE PurchaseInsertPayment(c)
  <2>1. pc[c] = "payment" /\ req[c].op = "purchase" /\ Buying(c) /\ Opening(c) /\ Paying(c)
    BY <1>5 DEF PurchaseInsertPayment, At, Buying, Opening, Paying
  <2>2. CASE Raise(c, "failed")
    BY <2>1, <2>2, RaiseIsPlain DEF Special
  <2>3. CASE KeyOf(c) \notin UsedKeys /\ SameKeyInFlight(c) = {} /\ Statement(c, "commit")
    <3>1. "commit" \in Labels \ {"idle", "done"}
      BY DEF Labels
    <3>2. /\ Moved(c, "commit") /\ held'[c] = held[c] \cup Wanted(c) /\ pc'[c] = "commit"
          /\ sub'[c] = sub[c] /\ rows'[c] = rows[c] /\ closed'[c] = closed[c]
          /\ UNCHANGED database /\ subs' = subs /\ sessions' = sessions
      BY <2>3, <3>1, StatementMoves DEF Moved, database
    <3>3. (\A m \in Wanted(c) : m.mode = "key_share") /\ req[c].plan \in Plans
      BY <1>0, <2>1 DEF Wanted, KeyShare, CallOK, At
    <3>4. sub[c] \in Subscription /\ sub[c].id = c /\ sub[c].user = UserOf(c)
      BY <1>0, <2>1 DEF CallOK
    <3>5. CallOK(c)'
      BY <2>1, <3>2, <3>3, <3>4, BuyingMoves
    <3> QED
      BY <2>1, <2>3, <3>1, <3>5, StatementWorks DEF BuyingStep
  <2> QED
    BY <1>5, <2>2, <2>3 DEF PurchaseInsertPayment
<1>6. CASE PurchaseCommit(c)
  <2>1. pc[c] = "commit" /\ req[c].op = "purchase" /\ Paying(c)
    BY <1>6 DEF PurchaseCommit, At, Paying
  <2>2. PICK zero : zero = 0 /\ CountAndSub(zero, c)
    BY NoCountNoSub DEF CountAndSub, SubIds
  <2>3. Committed(c, "purchased", zero, c)
    BY <1>6, <2>2 DEF PurchaseCommit
  <2>4. /\ Settled(c)
        /\ pc'[c] = "done" =>
              \/ reply'[c] = [kind |-> "purchased", count |-> zero, sub |-> c]
              \/ reply'[c] = Unanswered
        /\ pc'[c] = "done" => reply'[c].kind \in {"purchased", "unanswered"}
    BY <2>1, <2>2, <2>3, CommittedSettles
  <2>5. pc'[c] = "done" => \/ reply'[c].kind = "purchased" /\ reply'[c].sub = c
                           \/ reply'[c].kind = "unanswered"
    <3>1. Unanswered.kind = "unanswered"
      BY DEF Unanswered
    <3> HIDE DEF Unanswered
    <3> QED
      BY <2>4, <3>1
  <2>6. Tables'
    <3>1. sub[c] \in Subscription
      BY <1>0, <2>1 DEF CallOK
    <3>2. [id |-> c, user |-> UserOf(c), sub |-> c, key |-> KeyOf(c)] \in Payment
      BY <2>1, PurchaseFields DEF Payment, SubIds
    <3> QED
      BY <1>0, <1>6, <3>1, <3>2 DEF PurchaseCommit, Tables, SessionRows
  <2>7. Shape'
    BY <1>6, <2>4, <2>6, OneCallStep DEF PurchaseCommit, Settled
  <2> QED
    BY <1>6, <2>4, <2>5, <2>7
<1> QED
  BY <1>1, <1>2, <1>3, <1>4, <1>5, <1>6 DEF Buy

-----------------------------------------------------------------------------
(* What calls are about: sessions. *)

\* A start comes to its next statement.
LEMMA StartingMoves ==
  ASSUME Shape, NEW c \in Calls, Starting(c), Moved(c, pc'[c]), subs' = subs, sessions' = sessions,
         pc'[c] \in {"count", "session", "commit"}, EventFor(c) \in Events \cup Calls,
         NEW more, \A m \in more : m.mode = "key_share", held'[c] = held[c] \cup more,
         sub'[c] = sub[c], rows'[c] = rows[c], closed'[c] = closed[c]
  PROVE  CallOK(c)' /\ Starting(c)'
<1>1. /\ CallOK(c) /\ req'[c] = req[c] /\ script'[c] = script[c] /\ reply'[c] = reply[c]
      /\ sub[c] \in subs /\ EventFor(c)' = EventFor(c) /\ SessionRows' = SessionRows
  BY DEF Shape, Moved, CallOK, EventFor, SessionRows
<1>2. /\ Starting(c)' /\ ~ Buying(c)' /\ ~ Opening(c)' /\ ~ Paying(c)'
      /\ ~ Buying(c) /\ pc'[c] \notin Fresh /\ pc'[c] # "active" /\ pc[c] \notin {"idle", "done"}
  BY <1>1 DEF Starting, Buying, Opening, Paying, Fresh
<1>3. SubLock(sub[c].id)' = SubLock(sub[c].id) /\ SubLock(sub[c].id) \in held[c]
  BY <1>1 DEF CallOK, Locks, SubLock
<1>4. Locks(c)'
  <2>1. \A m \in held[c] : m.mode = "key_share" \/ m.row[1] \in {"sub", "session"}
    BY <1>1, <1>2 DEF CallOK, Locks
  <2>2. SubLock(sub'[c].id) \in held'[c]
    BY <1>3 DEF SubLock
  <2> QED
    BY <1>2, <2>1, <2>2 DEF Locks, SubLock
<1>5. PlaceOf(req[c], pc'[c])
  BY DEF PlaceOf, Starting
<1> QED
  BY <1>1, <1>2, <1>4, <1>5 DEF CallOK

\* What a start has found when it comes to its next statement.
StartingStep(c) ==
  \/ pc[c] = "lock" /\ pc'[c] = "event" /\ Granted(c) /\ sub'[c] \in ActiveOf(UserOf(c))
  \/ pc[c] = "event" /\ pc'[c] = "count" /\ sub'[c] = sub[c]
  \/ /\ pc[c] = "count" /\ pc'[c] = "session" /\ sub'[c] = sub[c]
     /\ Cardinality(OpenOn(sub[c])) < CapOf[sub[c].plan]
  \/ pc[c] = "session" /\ pc'[c] = "commit" /\ sub'[c] = sub[c]

LEMMA WatchShape ==
  ASSUME Shape, NEW c \in Calls, Watch(c)
  PROVE  /\ Shape'
         /\ \/ Plain(c) /\ UNCHANGED database
            \/ Working(c, "start") /\ StartingStep(c)
            \/ Plain(c) /\ StartCommit(c)
<1>0. Functions /\ CallOK(c) /\ Tables
  BY DEF Shape
<1>1. CASE StartLockSub(c)
  <2>1. pc[c] = "lock" /\ req[c].op = "start"
    BY <1>1 DEF StartLockSub, At
  <2>2. CASE Raise(c, "rejected")
    BY <2>1, <2>2, RaiseIsPlain DEF Special
  <2>3. CASE ~ Raise(c, "rejected")
    <3>1. PICK s \in ActiveOf(UserOf(c)) :
            /\ pc' = [pc EXCEPT ![c] = "event"] /\ held' = [held EXCEPT ![c] = @ \cup Wanted(c)]
            /\ sub' = [sub EXCEPT ![c] = s]
            /\ UNCHANGED <<database, script, req, rows, closed, reply>>
      BY <1>1, <2>3 DEF StartLockSub, Go, Take
    <3>2. s \in subs /\ s \in Subscription
      BY <1>0 DEF ActiveOf, Tables
    <3>3. OnlyCall(c) /\ Functions'
      BY <1>0, <3>1, <3>2 DEF OnlyCall, Functions, Labels
    <3>4. /\ pc'[c] = "event" /\ Moved(c, "event") /\ sub'[c] = s
          /\ held'[c] = held[c] \cup Wanted(c) /\ rows'[c] = rows[c] /\ closed'[c] = closed[c]
      BY <1>0, <3>1, <3>3 DEF Moved, Functions
    <3>5. Wanted(c) = ForUpdate("sub", {t.id : t \in ActiveOf(UserOf(c))}) /\ held[c] = {}
      BY <1>0, <2>1 DEF Wanted, At, CallOK, Locks, Fresh
    <3>6. SubLock(s.id) \in held'[c] /\ \A m \in held'[c] : m.row[1] = "sub"
      <4>1. held'[c] = ForUpdate("sub", {t.id : t \in ActiveOf(UserOf(c))})
        BY <3>4, <3>5
      <4>2. s.id \in {t.id : t \in ActiveOf(UserOf(c))}
        OBVIOUS
      <4> DEFINE ids == {t.id : t \in ActiveOf(UserOf(c))}
      <4>3. ASSUME NEW m \in ForUpdate("sub", ids)
            PROVE  m.row[1] = "sub"
        <5>1. PICK i \in ids : m = [row |-> <<"sub", i>>, mode |-> "for_update"]
          BY DEF ForUpdate
        <5>2. m.row = <<"sub", i>>
          BY <5>1
        <5> QED
          BY <5>2
      <4> HIDE DEF ids
      <4>4. SubLock(s.id) \in ForUpdate("sub", ids)
        BY <4>2 DEF ids, ForUpdate, SubLock
      <4> QED
        BY <4>1, <4>3, <4>4 DEF ids
    <3>7. /\ Starting(c)' /\ ~ Buying(c)' /\ ~ Opening(c)' /\ ~ Paying(c)'
          /\ pc'[c] \notin Fresh /\ req'[c] = req[c] /\ pc[c] \notin {"idle", "done"}
      BY <2>1, <3>4 DEF Moved, Starting, Buying, Opening, Paying, Fresh
    <3>8. Locks(c)'
      BY <3>4, <3>6, <3>7 DEF Locks, SubLock
    <3>9. UNCHANGED database /\ SessionRows' = SessionRows /\ subs' = subs /\ sessions' = sessions
      BY <3>1 DEF database, SessionRows
    <3>10. CallOK(c)'
      BY <1>0, <2>1, <3>2, <3>4, <3>7, <3>8, <3>9 DEF CallOK, Moved, PlaceOf
    <3>11. Shape'
      BY <1>0, <3>3, <3>9, <3>10, TablesStay, OneCallStep
    <3> QED
      BY <1>1, <2>1, <3>4, <3>7, <3>9, <3>11 DEF Working, StartLockSub, StartingStep
  <2> QED
    BY <2>2, <2>3
<1>2. CASE StartReadEvent(c)
  <2>1. pc[c] = "event" /\ req[c].op = "start" /\ Starting(c)
    BY <1>2 DEF StartReadEvent, At, Starting
  <2>2. CASE Raise(c, "rejected")
    BY <2>1, <2>2, RaiseIsPlain DEF Special
  <2>3. CASE EventFor(c) \in streamable /\ Statement(c, "count")
    <3>1. "count" \in Labels \ {"idle", "done"}
      BY DEF Labels
    <3>2. /\ Moved(c, "count") /\ held'[c] = held[c] \cup Wanted(c) /\ pc'[c] = "count"
          /\ sub'[c] = sub[c] /\ rows'[c] = rows[c] /\ closed'[c] = closed[c]
          /\ UNCHANGED database /\ subs' = subs /\ sessions' = sessions
      BY <2>3, <3>1, StatementMoves DEF Moved, database
    <3>3. (\A m \in Wanted(c) : m.mode = "key_share") /\ EventFor(c) \in Events \cup Calls
      BY <1>0, <2>1, <2>3, WantsNothing DEF Tables
    <3>4. CallOK(c)' /\ Starting(c)'
      BY <2>1, <3>2, <3>3, StartingMoves
    <3> QED
      BY <2>1, <2>3, <3>1, <3>2, <3>4, StatementWorks DEF StartingStep
  <2> QED
    BY <1>2, <2>2, <2>3 DEF StartReadEvent
<1>3. CASE StartCount(c)
  <2>1. /\ pc[c] = "count" /\ req[c].op = "start" /\ Starting(c)
        /\ EventFor(c) \in Events \cup Calls
    BY <1>0, <1>3 DEF StartCount, At, Starting, CallOK
  <2>2. CASE Raise(c, "rejected")
    BY <2>1, <2>2, RaiseIsPlain DEF Special
  <2>3. CASE Cardinality(OpenOn(sub[c])) < CapOf[sub[c].plan] /\ Statement(c, "session")
    <3>1. "session" \in Labels \ {"idle", "done"}
      BY DEF Labels
    <3>2. /\ Moved(c, "session") /\ held'[c] = held[c] \cup Wanted(c) /\ pc'[c] = "session"
          /\ sub'[c] = sub[c] /\ rows'[c] = rows[c] /\ closed'[c] = closed[c]
          /\ UNCHANGED database /\ subs' = subs /\ sessions' = sessions
      BY <2>3, <3>1, StatementMoves DEF Moved, database
    <3>3. \A m \in Wanted(c) : m.mode = "key_share"
      BY <2>1, WantsNothing
    <3>4. CallOK(c)' /\ Starting(c)'
      BY <2>1, <3>2, <3>3, StartingMoves
    <3> QED
      BY <2>1, <2>3, <3>1, <3>2, <3>4, StatementWorks DEF StartingStep
  <2> QED
    BY <1>3, <2>2, <2>3 DEF StartCount
<1>4. CASE StartInsertSession(c)
  <2>1. /\ pc[c] = "session" /\ req[c].op = "start" /\ Starting(c) /\ Statement(c, "commit")
        /\ EventFor(c) \in Events \cup Calls
    BY <1>0, <1>4 DEF StartInsertSession, At, Starting, CallOK
  <2>2. "commit" \in Labels \ {"idle", "done"}
    BY DEF Labels
  <2>3. /\ Moved(c, "commit") /\ held'[c] = held[c] \cup Wanted(c) /\ pc'[c] = "commit"
        /\ sub'[c] = sub[c] /\ rows'[c] = rows[c] /\ closed'[c] = closed[c]
        /\ UNCHANGED database /\ subs' = subs /\ sessions' = sessions
    BY <2>1, <2>2, StatementMoves DEF Moved, database
  <2>4. \A m \in Wanted(c) : m.mode = "key_share"
    BY <2>1 DEF Wanted, At, KeyShare
  <2>5. CallOK(c)' /\ Starting(c)'
    BY <2>1, <2>3, <2>4, StartingMoves
  <2> QED
    BY <2>1, <2>2, <2>3, <2>5, StatementWorks DEF StartingStep
<1>5. CASE StartCommit(c)
  <2>1. /\ pc[c] = "commit" /\ req[c].op = "start" /\ sub[c] \in subs
        /\ EventFor(c) \in Events \cup Calls
    BY <1>0, <1>5 DEF StartCommit, At, Starting, CallOK
  <2>2. sub[c].id \in SubIds
    BY <1>0, <2>1 DEF Tables, Subscription
  <2>3. PICK zero : zero = 0 /\ CountAndSub(zero, sub[c].id)
    BY <2>2, NoCountNoSub DEF CountAndSub
  <2>4. Committed(c, "started", zero, sub[c].id)
    BY <1>5, <2>3 DEF StartCommit
  <2>5. Settled(c) /\ (pc'[c] = "done" => reply'[c].kind \in {"started", "unanswered"})
    BY <2>1, <2>3, <2>4, CommittedSettles
  <2>6. [id |-> c, sub |-> sub[c].id, event |-> EventFor(c)] \in Session
    BY <2>1, <2>2 DEF Session
  <2>7. Tables'
    BY <1>0, <1>5, <2>6 DEF StartCommit, Tables, SessionRows
  <2>8. Shape'
    BY <1>5, <2>5, <2>7, OneCallStep DEF StartCommit, Settled
  <2> QED
    BY <1>5, <2>5, <2>8 DEF Plain, Special
<1> QED
  BY <1>1, <1>2, <1>3, <1>4, <1>5 DEF Watch

\* An end or a bulk close comes to its next statement.
LEMMA LeavingMoves ==
  ASSUME Shape, NEW c \in Calls, req[c].op \in {"end", "bulk"}, pc[c] \notin {"idle", "done"},
         Moved(c, pc'[c]), UNCHANGED database, pc'[c] \in {"close", "commit"},
         pc'[c] = "close" => req[c].op = "bulk",
         NEW more, \A m \in more : m.row[1] = "session", held'[c] = held[c] \cup more,
         rows'[c] \subseteq SessionRows, closed'[c] \subseteq SessionRows
  PROVE  Shape' /\ Working(c, req[c].op)
<1>1. /\ CallOK(c) /\ req'[c] = req[c] /\ script'[c] = script[c] /\ reply'[c] = reply[c]
      /\ SessionRows' = SessionRows
  BY DEF Shape, Moved, SessionRows, database
<1>2. /\ ~ Starting(c)' /\ ~ Buying(c)' /\ ~ Opening(c)' /\ ~ Paying(c)'
      /\ ~ Buying(c) /\ pc'[c] \notin Fresh /\ pc'[c] # "active"
  BY <1>1 DEF Starting, Buying, Opening, Paying, Fresh
<1>3. Locks(c)'
  BY <1>1, <1>2 DEF CallOK, Locks
<1>4. PlaceOf(req[c], pc'[c])
  BY DEF PlaceOf
<1>5. CallOK(c)'
  BY <1>1, <1>2, <1>3, <1>4 DEF CallOK
<1>6. Tables'
  BY TablesStay DEF Shape
<1> QED
  BY <1>5, <1>6, OneCallStep DEF Moved, Working, database

LEMMA LeaveShape ==
  ASSUME Shape, NEW c \in Calls, Leave(c)
  PROVE  /\ Shape'
         /\ \/ Plain(c) /\ UNCHANGED database
            \/ Working(c, req[c].op) /\ req[c].op \in {"end", "bulk"} /\ ~ CloseCommit(c)
            \/ Plain(c) /\ CloseCommit(c)
<1>0. Functions /\ CallOK(c) /\ Tables
  BY DEF Shape
<1>1. CASE EndLockSession(c)
  <2>1. pc[c] = "lock" /\ req[c].op = "end" /\ held[c] = {}
    BY <1>0, <1>1 DEF EndLockSession, At, CallOK, Locks, Fresh
  <2>2. CASE Return(c, "ended", 0, None) /\ UNCHANGED database
    <3>1. PICK zero : zero = 0 /\ CountAndSub(zero, None)
      BY NoCountNoSub
    <3>2. Settled(c) /\ (pc'[c] = "done" => reply'[c] = [kind |-> "ended", count |-> zero, sub |-> None])
      BY <2>1, <2>2, <3>1, ReturnSettles
    <3>3. pc'[c] = "done" => reply'[c].kind = "ended"
      BY <3>2
    <3>4. Shape'
      BY <1>0, <2>2, <3>2, OneCallStep, TablesStay DEF Settled, database
    <3> QED
      BY <2>2, <3>2, <3>3, <3>4 DEF Plain, Special
  <2>3. CASE ~ (Return(c, "ended", 0, None) /\ UNCHANGED database)
    <3>1. /\ \E x \in sessions : x.id = req[c].session /\ x.id \notin ended
          /\ pc' = [pc EXCEPT ![c] = "commit"] /\ held' = [held EXCEPT ![c] = @ \cup Wanted(c)]
          /\ closed' = [closed EXCEPT ![c] = {req[c].session}]
          /\ UNCHANGED <<database, script, req, sub, rows, reply>>
      BY <1>1, <2>3 DEF EndLockSession, Go, Take
    <3>2. req[c].session \in SessionRows /\ req[c].session \in SessionIds
      BY <1>0, <2>1, <3>1, OperationFields DEF SessionRows, CallOK, OpFields
    <3>3. OnlyCall(c) /\ Functions'
      BY <1>0, <3>1, <3>2 DEF OnlyCall, Functions, Labels
    <3>4. /\ pc'[c] = "commit" /\ Moved(c, pc'[c])
          /\ held'[c] = held[c] \cup Wanted(c) /\ rows'[c] = rows[c]
          /\ closed'[c] = {req[c].session} /\ UNCHANGED database
      BY <1>0, <3>1, <3>3 DEF Moved, Functions
    <3>5. \A m \in Wanted(c) : m.row[1] = "session"
      BY <2>1 DEF Wanted, At, ForUpdate
    <3>6. rows'[c] \subseteq SessionRows /\ closed'[c] \subseteq SessionRows
      BY <1>0, <3>2, <3>4 DEF CallOK
    <3>7. Shape' /\ Working(c, req[c].op)
      BY <2>1, <3>4, <3>5, <3>6, LeavingMoves
    <3> QED
      BY <2>1, <3>7 DEF CloseCommit
  <2> QED
    BY <2>2, <2>3
<1>2. CASE BulkMatch(c)
  <2> DEFINE open == ({x.id : x \in sessions} \cap req[c].sessions) \ ended
  <2>1. /\ pc[c] = "match" /\ req[c].op = "bulk" /\ held[c] = {}
        /\ req[c].sessions \subseteq SessionIds
    BY <1>0, <1>2, OperationFields DEF BulkMatch, At, CallOK, Locks, Fresh, OpFields
  <2>2. /\ rows' = [rows EXCEPT ![c] = open]
        /\ pc' = [pc EXCEPT ![c] = IF open = {} THEN "commit" ELSE "close"]
        /\ UNCHANGED <<database, script, req, held, sub, closed, reply>>
    BY <1>2 DEF BulkMatch, Go
  <2>3. open \subseteq SessionRows /\ open \subseteq SessionIds
    BY <2>1 DEF SessionRows
  <2> HIDE DEF open
  <2>4. OnlyCall(c) /\ Functions'
    BY <1>0, <2>2, <2>3 DEF OnlyCall, Functions, Labels
  <2>5. /\ pc'[c] \in {"close", "commit"} /\ Moved(c, pc'[c])
        /\ held'[c] = held[c] \cup {} /\ rows'[c] = open
        /\ closed'[c] = closed[c] /\ UNCHANGED database
    BY <1>0, <2>2, <2>4 DEF Moved, Functions
  <2>6. rows'[c] \subseteq SessionRows /\ closed'[c] \subseteq SessionRows
    BY <1>0, <2>3, <2>5 DEF CallOK
  <2>7. PICK more : more = {}
    OBVIOUS
  <2>8. (\A m \in more : m.row[1] = "session") /\ held'[c] = held[c] \cup more
    BY <2>5, <2>7
  <2>9. Shape' /\ Working(c, req[c].op)
    BY <2>1, <2>5, <2>6, <2>8, LeavingMoves
  <2> QED
    BY <2>1, <2>9 DEF CloseCommit
<1>3. ASSUME NEW x \in rows[c], BulkClose(c, x)
      PROVE  /\ Shape' /\ Working(c, req[c].op) /\ req[c].op \in {"end", "bulk"}
             /\ ~ CloseCommit(c)
  <2> DEFINE lock == NoKeyUpdate("session", {x})
  <2>1. pc[c] = "close" /\ req[c].op = "bulk"
    BY <1>3 DEF BulkClose, At
  <2>2. /\ rows' = [rows EXCEPT ![c] = @ \ {x}]
        /\ held' = [held EXCEPT ![c] = @ \cup lock]
        /\ closed' = [closed EXCEPT ![c] = @ \cup ({x} \ ended)]
        /\ pc' = [pc EXCEPT ![c] = IF rows[c] = {x} THEN "commit" ELSE "close"]
        /\ UNCHANGED <<database, script, req, sub, reply>>
    BY <1>3 DEF BulkClose, Go
  <2>3. x \in SessionRows /\ x \in SessionIds
    BY <1>0 DEF CallOK, Functions
  <2>4. \A m \in lock : m.row[1] = "session"
    BY DEF NoKeyUpdate
  <2> HIDE DEF lock
  <2>5. OnlyCall(c) /\ Functions'
    BY <1>0, <2>2, <2>3 DEF OnlyCall, Functions, Labels
  <2>6. /\ pc'[c] \in {"close", "commit"} /\ Moved(c, pc'[c])
        /\ held'[c] = held[c] \cup lock /\ rows'[c] = rows[c] \ {x}
        /\ closed'[c] = closed[c] \cup ({x} \ ended) /\ UNCHANGED database
    BY <1>0, <2>2, <2>5 DEF Moved, Functions
  <2>7. rows'[c] \subseteq SessionRows /\ closed'[c] \subseteq SessionRows
    BY <1>0, <2>3, <2>6 DEF CallOK
  <2>8. Shape' /\ Working(c, req[c].op)
    BY <2>1, <2>4, <2>6, <2>7, LeavingMoves
  <2> QED
    BY <2>1, <2>8 DEF CloseCommit
<1>4. CASE CloseCommit(c)
  <2>1. pc[c] = "commit" /\ closed[c] \subseteq SessionRows /\ closed[c] \subseteq SessionIds
    BY <1>0, <1>4 DEF CloseCommit, CallOK, Functions
  <2>2. CountAndSub(Cardinality(closed[c]), None)
    BY <2>1, SeatsAssumption, FS_Subset, FS_CardinalityType DEF CountAndSub
  <2>3. Committed(c, "closed", Cardinality(closed[c]), None)
    BY <1>4 DEF CloseCommit
  <2>4. Settled(c) /\ (pc'[c] = "done" => reply'[c].kind \in {"closed", "unanswered"})
    BY <2>1, <2>2, <2>3, CommittedSettles
  <2>5. Tables'
    BY <1>0, <1>4, <2>1 DEF CloseCommit, Tables, SessionRows
  <2>6. Shape'
    BY <1>4, <2>4, <2>5, OneCallStep DEF CloseCommit, Settled
  <2> QED
    BY <1>4, <2>4, <2>6 DEF Plain, Special
<1> QED
  BY <1>1, <1>2, <1>3, <1>4 DEF Leave

-----------------------------------------------------------------------------
(* What calls are about, in all. *)

LEMMA ShapeInit == Init => Shape
<1> SUFFICES ASSUME Init
             PROVE  Shape
  OBVIOUS
<1>1. PICK zero : zero = 0 /\ CountAndSub(zero, None)
  BY NoCountNoSub
<1>2. Functions
  BY DEF Init, Functions, Labels
<1>3. Tables
  BY SeatsAssumption DEF Init, Tables
<1>4. ASSUME NEW c \in Calls
      PROVE  CallOK(c)
  <2>1. /\ pc[c] = "idle" /\ held[c] = {} /\ rows[c] = {} /\ closed[c] = {}
        /\ reply[c] = [kind |-> "none", count |-> 0, sub |-> None]
    BY <1>4 DEF Init
  <2>2. reply[c].kind = "none" /\ reply[c].count = zero /\ reply[c].sub = None
    BY <1>1, <2>1
  <2>3. ~ Buying(c) /\ ~ Opening(c) /\ ~ Paying(c) /\ ~ Starting(c)
    BY <2>1 DEF Buying, Opening, Paying, Starting
  <2> QED
    BY <1>1, <2>1, <2>2, <2>3 DEF CallOK, Locks
<1> QED
  BY <1>2, <1>3, <1>4 DEF Shape

\* The steps that are nobody's.
CallsRest == UNCHANGED <<users, subs, payments, sessions, ended, script, req, pc, work, reply>>

LEMMA RestShape ==
  ASSUME Shape, CallsRest, betKeys' \subseteq BetKeys, streamable' \subseteq Events \cup Calls,
         today' \in 0 .. LastDay
  PROVE  Shape'
<1>1. Functions' /\ Tables'
  BY DEF Shape, Functions, Tables, CallsRest, work, SessionRows
<1>2. ASSUME NEW c \in Calls
      PROVE  CallOK(c)'
  BY <1>2 DEF Shape, CallsRest, work, CallOK, Locks, Buying, Opening, Paying, Starting, UserOf,
     EventFor, SessionRows
<1> QED
  BY <1>1, <1>2 DEF Shape

LEMMA NobodysSteps ==
  ASSUME Shape,
         \/ \E e \in Events \cup Calls : EventStops(e)
         \/ \E k \in BetKeys : BetCommits(k)
         \/ NextDay
         \/ UNCHANGED vars
  PROVE  CallsRest /\ Shape'
<1>0. Tables /\ LastDay \in Nat
  BY SeatsAssumption DEF Shape
<1>1. CASE \E e \in Events \cup Calls : EventStops(e)
  BY <1>0, <1>1, RestShape DEF EventStops, CallsRest, Tables
<1>2. CASE \E k \in BetKeys : BetCommits(k)
  BY <1>0, <1>2, RestShape DEF BetCommits, CallsRest, Tables
<1>3. CASE NextDay
  BY <1>0, <1>3, RestShape DEF NextDay, CallsRest, Tables
<1>4. CASE UNCHANGED vars
  BY <1>0, <1>4, RestShape DEF vars, database, CallsRest, Tables
<1> QED
  BY <1>1, <1>2, <1>3, <1>4

\* The steps that only end a call.
LEMMA FailShape ==
  ASSUME Shape, NEW c \in Calls, Crash(c) \/ BulkDeadlocked(c)
  PROVE  Shape' /\ Plain(c) /\ UNCHANGED database
<1>1. PICK kind \in {"crashed", "deadlocked"} : Raise(c, kind)
  BY DEF Crash, BulkDeadlocked
<1>2. pc[c] \notin {"idle", "done"}
  BY DEF Crash, BulkDeadlocked
<1> QED
  BY <1>1, <1>2, RaiseIsPlain DEF Special

\* What the steps are, for the parts of the invariant that rest on this one.
LEMMA NextIs ==
  ASSUME [Next]_vars
  PROVE  \/ \E c \in Calls : (\E s \in Requests : Start(c, s)) \/ SignUp(c) \/ Buy(c)
                               \/ Watch(c) \/ Leave(c) \/ Crash(c) \/ BulkDeadlocked(c)
         \/ \E e \in Events \cup Calls : EventStops(e)
         \/ \E k \in BetKeys : BetCommits(k)
         \/ NextDay
         \/ UNCHANGED vars
BY DEF Next, Finished

LEMMA ShapeNext == Shape /\ [Next]_vars => Shape'
BY NextIs, StartShape, SignUpShape, BuyShape, WatchShape, LeaveShape, FailShape, NobodysSteps

LEMMA ShapeHolds == Spec => []Shape
BY ShapeInit, ShapeNext, PTL DEF Spec

LEMMA ShapeTypes == Shape => TypeOK
BY DEF Shape, Functions, Tables, CallOK, CountAndSub, TypeOK, SessionRows

\* Every variable of Seats keeps its type: a plan that is bought is in the table,
\* what calls have closed are rows.
THEOREM SeatsTypes == Spec => []TypeOK
BY ShapeHolds, ShapeTypes, PTL

-----------------------------------------------------------------------------
(* Addresses. *)

\* A call that neither comes to commit a sign-up nor answers that it has.
LEMMA AddressesFrame ==
  ASSUME Addresses, NEW c \in Calls, OnlyCall(c), users' = users,
         ~ At(c, "register", "commit")', reply'[c].kind # "registered"
  PROVE  Addresses'
<1>1. \A d \in Calls \ {c} : /\ At(d, "register", "commit")' <=> At(d, "register", "commit")
                             /\ req'[d] = req[d] /\ pc'[d] = pc[d] /\ reply'[d] = reply[d]
  BY DEF OnlyCall, At
<1> QED
  BY <1>1 DEF Addresses

LEMMA AddressesSettled ==
  ASSUME Shape, Addresses, NEW c \in Calls, Plain(c), users' = users
  PROVE  Addresses'
<1>1. pc'[c] \in Fresh /\ OnlyCall(c)
  BY DEF Plain, Settled, Fresh
<1>2. ~ At(c, "register", "commit")'
  BY <1>1 DEF At, Fresh
<1>3. reply'[c].kind # "registered"
  BY DEF Plain, Settled, Special, Addresses
<1> QED
  BY <1>1, <1>2, <1>3, AddressesFrame

LEMMA AddressesWorking ==
  ASSUME Shape, Addresses, NEW c \in Calls, NEW op, op # "register", Working(c, op)
  PROVE  Addresses'
<1>1. OnlyCall(c) /\ users' = users /\ ~ At(c, "register", "commit")'
  BY DEF Working, Moved, database, At
<1>2. reply'[c].kind # "registered"
  BY DEF Shape, CallOK, Working, Moved
<1> QED
  BY <1>1, <1>2, AddressesFrame

LEMMA SignUpAddresses ==
  ASSUME Shape, Addresses, NEW c \in Calls, SignUp(c)
  PROVE  Addresses'
<1>1. CASE Plain(c) /\ UNCHANGED <<users, subs, payments, betKeys, sessions, ended>>
  BY <1>1, AddressesSettled
<1>2. CASE RegisterInsert(c) /\ Working(c, "register") /\ pc'[c] = "commit"
  <2>1. /\ OnlyCall(c) /\ users' = users /\ req'[c] = req[c] /\ pc[c] = "email"
        /\ reply'[c].kind # "registered" /\ pc[c] # "done"
    BY <1>2 DEF Working, Moved, database, RegisterInsert, At, Shape, CallOK
  <2>2. /\ \A u \in users : u.email # Canonical[req[c].email]
        /\ SameEmailInFlight(c) = {}
    BY <1>2, <2>1 DEF RegisterInsert, Raise, Answer, Go, Shape, Functions
  <2>3. \A d \in Calls \ {c} : /\ At(d, "register", "commit")' <=> At(d, "register", "commit")
                               /\ req'[d] = req[d] /\ pc'[d] = pc[d] /\ reply'[d] = reply[d]
    BY <2>1 DEF OnlyCall, At
  <2>4. \A d \in Calls \ {c} : At(d, "register", "commit") =>
          Canonical[req[d].email] # Canonical[req[c].email]
    BY <2>2 DEF SameEmailInFlight
  <2> QED
    BY <2>1, <2>2, <2>3, <2>4 DEF Addresses
<1>3. CASE /\ RegisterCommit(c) /\ Settled(c)
           /\ pc'[c] = "done" => reply'[c].kind \in {"registered", "unanswered"}
  <2> DEFINE row == [id |-> c, email |-> Canonical[req[c].email]]
  <2>1. /\ At(c, "register", "commit") /\ users' = users \cup {row} /\ OnlyCall(c)
        /\ pc'[c] \in Fresh
    BY <1>3 DEF RegisterCommit, Settled, Fresh
  <2>2. req[c].email \in Emails /\ pc[c] # "done" /\ pc[c] # "idle"
    BY <2>1, OperationFields DEF Shape, CallOK, OpFields, At
  <2>3. row.email = Canonical[req[c].email] /\ Canonical[row.email] = row.email
    BY <2>2, SeatsAssumption
  <2>4. \A u \in users : u.email # row.email
    BY <2>1, <2>3 DEF Addresses
  <2>5. \A d \in Calls \ {c} : /\ At(d, "register", "commit")' <=> At(d, "register", "commit")
                               /\ req'[d] = req[d] /\ pc'[d] = pc[d] /\ reply'[d] = reply[d]
    BY <2>1 DEF OnlyCall, At
  <2>6. ~ At(c, "register", "commit")'
    BY <2>1 DEF At, Fresh
  <2>7. \A d \in Calls \ {c} : At(d, "register", "commit") =>
          Canonical[req[d].email] # row.email
    BY <2>1, <2>3 DEF Addresses
  <2>8. reply'[c].kind = "registered" => pc'[c] = "done" /\ req'[c] = req[c]
    BY <1>3, <2>2 DEF Settled, Shape, CallOK
  <2>9. row \in users'
    BY <2>1
  <2>10. \A d \in Calls : reply'[d].kind = "registered" =>
           pc'[d] = "done" /\ [id |-> d, email |-> Canonical[req'[d].email]] \in users'
    BY <2>1, <2>5, <2>8, <2>9 DEF Addresses
  <2> HIDE DEF row
  <2>11. /\ \A u, v \in users' : u.email = v.email => u = v
         /\ \A u \in users' : Canonical[u.email] = u.email
    BY <2>1, <2>3, <2>4 DEF Addresses
  <2>12. \A d \in Calls : At(d, "register", "commit")' =>
           \A u \in users' : u.email # Canonical[req'[d].email]
    BY <2>1, <2>5, <2>6, <2>7 DEF Addresses
  <2>13. \A d, e \in Calls : d # e /\ At(d, "register", "commit")' /\ At(e, "register", "commit")' =>
           Canonical[req'[d].email] # Canonical[req'[e].email]
    BY <2>5, <2>6 DEF Addresses
  <2> QED
    BY <2>10, <2>11, <2>12, <2>13 DEF Addresses
<1> QED
  BY <1>1, <1>2, <1>3, SignUpShape

LEMMA AddressesInit == Init => Addresses
<1> SUFFICES ASSUME Init
             PROVE  Addresses
  OBVIOUS
<1>1. \A c \in Calls : pc[c] = "idle" /\ reply[c].kind = "none"
  BY DEF Init
<1> QED
  BY <1>1, SeatsAssumption DEF Init, Addresses, At

LEMMA AddressesNext == Shape /\ Addresses /\ [Next]_vars => Addresses'
<1> SUFFICES ASSUME Shape, Addresses, [Next]_vars
             PROVE  Addresses'
  OBVIOUS
<1>1. ASSUME NEW c \in Calls, NEW s \in Requests, Start(c, s)
      PROVE  Addresses'
  <2>1. OnlyCall(c) /\ users' = users /\ reply' = reply /\ pc[c] = "idle" /\ pc'[c] \in Fresh
    BY <1>1, StartShape DEF database
  <2>2. ~ At(c, "register", "commit")' /\ reply'[c].kind # "registered"
    BY <2>1 DEF At, Fresh, Addresses
  <2> QED
    BY <2>1, <2>2, AddressesFrame
<1>2. ASSUME NEW c \in Calls, Buy(c)
      PROVE  Addresses'
  <2>1. CASE Working(c, "purchase")
    BY <2>1, AddressesWorking
  <2>2. CASE /\ Settled(c) /\ users' = users
             /\ pc'[c] = "done" => reply'[c].kind \in {"replayed", "purchased", "unanswered"}
    <3>1. pc'[c] \in Fresh /\ OnlyCall(c)
      BY <2>2 DEF Settled, Fresh
    <3>2. ~ At(c, "register", "commit")'
      BY <3>1 DEF At, Fresh
    <3>3. reply'[c].kind # "registered"
      BY <2>2 DEF Settled, Addresses
    <3> QED
      BY <2>2, <3>1, <3>2, <3>3, AddressesFrame
  <2> QED
    BY <1>2, <2>1, <2>2, BuyShape, AddressesSettled DEF PurchaseCommit, database
<1>3. ASSUME NEW c \in Calls, Watch(c)
      PROVE  Addresses'
  BY <1>3, WatchShape, AddressesSettled, AddressesWorking DEF StartCommit, database
<1>4. ASSUME NEW c \in Calls, Leave(c)
      PROVE  Addresses'
  BY <1>4, LeaveShape, AddressesSettled, AddressesWorking DEF CloseCommit, database
<1>5. ASSUME NEW c \in Calls, Crash(c) \/ BulkDeadlocked(c)
      PROVE  Addresses'
  BY <1>5, FailShape, AddressesSettled DEF database
<1>6. ASSUME CallsRest
      PROVE  Addresses'
  BY <1>6 DEF CallsRest, work, Addresses, At
<1> QED
  BY <1>1, <1>2, <1>3, <1>4, <1>5, <1>6, NextIs, NobodysSteps, SignUpAddresses

\* However many sign up at once, and however they write their addresses: one
\* user for an address, and of two sign-ups with one address at most one is told
\* that it has succeeded.
THEOREM OneUserPerAddress == Spec => []EmailsOnce
<1>1. Shape /\ Addresses => EmailsOnce
  <2> SUFFICES ASSUME Addresses
               PROVE  EmailsOnce
    OBVIOUS
  <2>1. \A u, v \in users : Canonical[u.email] = Canonical[v.email] => u = v
    BY DEF Addresses
  <2>2. ASSUME NEW c \in Calls, NEW d \in Calls, reply[c].kind = "registered",
               reply[d].kind = "registered",
               Canonical[req[c].email] = Canonical[req[d].email]
        PROVE  c = d
    <3> DEFINE u == [id |-> c, email |-> Canonical[req[c].email]]
               v == [id |-> d, email |-> Canonical[req[d].email]]
    <3>1. u \in users /\ v \in users
      BY <2>2 DEF Addresses
    <3>2. u = v
      BY <2>1, <2>2, <3>1
    <3>3. u.id = c /\ v.id = d
      OBVIOUS
    <3> QED
      BY <3>2, <3>3
  <2> QED
    BY <2>1, <2>2 DEF EmailsOnce
<1> QED
  BY <1>1, ShapeHolds, AddressesInit, AddressesNext, PTL DEF Spec

-----------------------------------------------------------------------------
(* Subscriptions. *)

LEMMA RankBound == \A r : Rank(r) \in 0 .. 3
BY DEF Rank

LEMMA OpeningIsBuying ==
  \A c : (Opening(c) => Buying(c)) /\ (Paying(c) => Opening(c))
BY DEF Opening, Buying, Paying

\* A call that is at no purchase.
LEMMA PurchasesFrame ==
  ASSUME Purchases, NEW c \in Calls, OnlyCall(c), subs' = subs, ~ Buying(c)',
         c \in SubRows => pc'[c] = "done" \/ (pc'[c] # "idle" /\ Rank(req'[c]) = 3)
  PROVE  Purchases'
<1>1. ~ Opening(c)'
  BY DEF Opening, Buying
<1>2. \A d \in Calls \ {c} : /\ (Buying(d)' <=> Buying(d)) /\ (Opening(d)' <=> Opening(d))
                             /\ UserOf(d)' = UserOf(d) /\ req'[d] = req[d] /\ pc'[d] = pc[d]
  BY OthersSame DEF OnlyCall
<1>3. SubRows' = SubRows /\ \A u : ActiveOf(u)' = ActiveOf(u)
  BY DEF SubRows, ActiveOf
<1>4. \A d \in Calls : Opening(d)' => ActiveOf(UserOf(d))' = {}
  BY <1>1, <1>2 DEF Purchases, ActiveOf
<1>5. \A d \in Calls : d \in SubRows' => pc'[d] = "done" \/ (pc'[d] # "idle" /\ Rank(req'[d]) = 3)
  BY <1>2, <1>3 DEF Purchases
<1>6. \A d, e \in Calls : d # e /\ Buying(d)' /\ Buying(e)' => UserOf(d)' # UserOf(e)'
  BY <1>2 DEF Purchases
<1> QED
  BY <1>4, <1>5, <1>6 DEF Purchases

LEMMA PurchasesSettled ==
  ASSUME Shape, Purchases, NEW c \in Calls, Settled(c), subs' = subs
  PROVE  Purchases'
<1>1. pc'[c] \in Fresh /\ pc'[c] # "idle" /\ OnlyCall(c)
  BY DEF Settled, Fresh
<1>2. ~ Buying(c)'
  BY <1>1 DEF Buying, Fresh
<1>3. c \in SubRows => Rank(req[c]) = 3
  BY DEF Purchases, Settled
<1>4. c \in SubRows => pc'[c] = "done"
  BY <1>3, RankBound DEF Settled
<1> QED
  BY <1>1, <1>2, <1>4, PurchasesFrame

LEMMA PurchasesWorking ==
  ASSUME Shape, Purchases, NEW c \in Calls, NEW op, op # "purchase", Working(c, op)
  PROVE  Purchases'
<1>1. OnlyCall(c) /\ subs' = subs /\ ~ Buying(c)' /\ req'[c] = req[c] /\ pc'[c] # "idle"
  BY DEF Working, Moved, database, Buying
<1>2. c \in SubRows => Rank(req[c]) = 3
  BY DEF Purchases, Working
<1> QED
  BY <1>1, <1>2, PurchasesFrame

\* A purchase is granted the lock of its user when no other has it.
LEMMA UserGranted ==
  ASSUME Shape, NEW c \in Calls, At(c, "purchase", "user"), Granted(c), UserOf(c) \in UserRows,
         NEW d \in Calls \ {c}, Buying(d)
  PROVE  UserOf(d) # UserOf(c)
<1> SUFFICES ASSUME UserOf(d) = UserOf(c)
             PROVE  FALSE
  OBVIOUS
<1>1. UserLock(UserOf(c)) \in held[d] /\ DOMAIN held = Calls
  BY DEF Shape, CallOK, Locks, Functions
<1>2. UserLock(UserOf(c)) \in Wanted(c)
  BY DEF At, Wanted, ForUpdate, UserLock
<1>3. Conflict(UserLock(UserOf(c)), UserLock(UserOf(c)))
  BY DEF Conflict, UserLock
<1> QED
  BY <1>1, <1>2, <1>3 DEF Granted, Holders

LEMMA BuyPurchases ==
  ASSUME Shape, Purchases, NEW c \in Calls, Buy(c)
  PROVE  Purchases'
<1>0. Functions /\ CallOK(c)
  BY DEF Shape
<1>1. CASE Settled(c) /\ UNCHANGED database
  BY <1>1, PurchasesSettled DEF database
<1>2. CASE Working(c, "purchase") /\ BuyingStep(c)
  <2>1. /\ OnlyCall(c) /\ subs' = subs /\ req'[c] = req[c] /\ UserOf(c)' = UserOf(c)
        /\ req[c].op = "purchase"
    BY <1>2 DEF Working, Moved, database, UserOf
  <2>2. c \notin SubRows
    <3>1. Rank(req[c]) = 2
      BY <2>1 DEF Rank
    <3> QED
      BY <1>2, <3>1 DEF Purchases, Working
  <2>3. \A d \in Calls \ {c} : Buying(d) => UserOf(d) # UserOf(c)
    <3>1. CASE pc[c] = "user"
      BY <1>2, <2>1, <3>1, UserGranted DEF BuyingStep, At
    <3>2. CASE pc[c] # "user"
      <4>1. Buying(c)
        BY <1>2, <2>1, <3>2 DEF BuyingStep, Buying
      <4> QED
        BY <4>1 DEF Purchases
    <3> QED
      BY <3>1, <3>2
  <2>4. Opening(c)' => ActiveOf(UserOf(c)) = {}
    BY <1>2, <2>1 DEF BuyingStep, Opening, Purchases
  <2>5. \A d \in Calls \ {c} : /\ (Buying(d)' <=> Buying(d)) /\ (Opening(d)' <=> Opening(d))
                               /\ UserOf(d)' = UserOf(d) /\ req'[d] = req[d] /\ pc'[d] = pc[d]
    BY <2>1, OthersSame DEF OnlyCall
  <2>6. SubRows' = SubRows /\ \A u : ActiveOf(u)' = ActiveOf(u)
    BY <2>1 DEF SubRows, ActiveOf
  <2>7. \A d \in Calls : Opening(d)' => ActiveOf(UserOf(d))' = {}
    BY <2>1, <2>4, <2>5 DEF Purchases, ActiveOf
  <2>8. \A d \in Calls : d \in SubRows' => pc'[d] = "done" \/ (pc'[d] # "idle" /\ Rank(req'[d]) = 3)
    BY <2>2, <2>5, <2>6 DEF Purchases
  <2>9. \A d, e \in Calls : d # e /\ Buying(d)' /\ Buying(e)' => UserOf(d)' # UserOf(e)'
    BY <2>1, <2>3, <2>5 DEF Purchases
  <2> QED
    BY <2>1, <2>7, <2>8, <2>9 DEF Purchases
<1>3. CASE PurchaseCommit(c) /\ Settled(c)
  <2>1. /\ pc[c] = "commit" /\ req[c].op = "purchase" /\ subs' = subs \cup {sub[c]} /\ OnlyCall(c)
        /\ Paying(c) /\ Opening(c) /\ Buying(c)
    BY <1>3 DEF PurchaseCommit, At, Paying, Opening, Buying, Settled
  <2>2. sub[c].id = c /\ sub[c].user = UserOf(c)
    BY <1>0, <2>1 DEF CallOK
  <2>3. c \notin SubRows /\ \A s \in subs : s.user # sub[c].user /\ s.id # sub[c].id
    <3>1. Rank(req[c]) = 2
      BY <2>1 DEF Rank
    <3>2. c \notin SubRows
      BY <2>1, <3>1 DEF Purchases
    <3>3. ActiveOf(UserOf(c)) = {}
      BY <2>1 DEF Purchases
    <3> QED
      BY <2>2, <3>2, <3>3 DEF ActiveOf, SubRows
  <2>4. pc'[c] \in Fresh /\ pc'[c] # "idle" /\ (pc'[c] # "done" => Rank(req'[c]) = 3)
    <3>1. Rank(req[c]) = 2
      BY <2>1 DEF Rank
    <3> QED
      BY <1>3, <3>1, RankBound DEF Settled, Fresh
  <2>5. ~ Buying(c)' /\ ~ Opening(c)'
    BY <2>4 DEF Buying, Opening, Fresh
  <2>6. \A d \in Calls \ {c} : /\ (Buying(d)' <=> Buying(d)) /\ (Opening(d)' <=> Opening(d))
                               /\ UserOf(d)' = UserOf(d) /\ req'[d] = req[d] /\ pc'[d] = pc[d]
    BY <2>1, OthersSame DEF OnlyCall
  <2>7. SubRows' = SubRows \cup {c}
    BY <2>1, <2>2 DEF SubRows
  <2>8. \A s, t \in subs' : s.id = t.id \/ s.user = t.user => s = t
    BY <2>1, <2>3 DEF Purchases
  <2>9. ASSUME NEW d \in Calls, Opening(d)'
        PROVE  ActiveOf(UserOf(d))' = {}
    <3>1. d # c /\ Opening(d) /\ Buying(d)
      BY <2>5, <2>6, <2>9, OpeningIsBuying
    <3>2. ActiveOf(UserOf(d)) = {} /\ UserOf(d) # UserOf(c) /\ UserOf(d)' = UserOf(d)
      BY <2>1, <2>6, <3>1 DEF Purchases
    <3> QED
      BY <2>1, <2>2, <3>2 DEF ActiveOf
  <2>10. \A d \in Calls : d \in SubRows' => pc'[d] = "done" \/ (pc'[d] # "idle" /\ Rank(req'[d]) = 3)
    BY <2>4, <2>6, <2>7 DEF Purchases
  <2>11. \A d, e \in Calls : d # e /\ Buying(d)' /\ Buying(e)' => UserOf(d)' # UserOf(e)'
    BY <2>5, <2>6 DEF Purchases
  <2> QED
    BY <2>8, <2>9, <2>10, <2>11 DEF Purchases
<1> QED
  BY <1>1, <1>2, <1>3, BuyShape DEF Plain

LEMMA PurchasesInit == Init => Purchases
<1> SUFFICES ASSUME Init
             PROVE  Purchases
  OBVIOUS
<1>1. \A c \in Calls : ~ Buying(c) /\ ~ Opening(c)
  BY DEF Init, Buying, Opening
<1> QED
  BY <1>1, SeedsAssumption DEF Init, Purchases, SubRows

LEMMA PurchasesNext == Shape /\ Purchases /\ [Next]_vars => Purchases'
<1> SUFFICES ASSUME Shape, Purchases, [Next]_vars
             PROVE  Purchases'
  OBVIOUS
<1>1. ASSUME NEW c \in Calls, NEW s \in Requests, Start(c, s)
      PROVE  Purchases'
  <2>1. OnlyCall(c) /\ subs' = subs /\ pc[c] = "idle" /\ pc'[c] \in Fresh
    BY <1>1, StartShape DEF database
  <2>2. ~ Buying(c)' /\ c \notin SubRows
    BY <2>1 DEF Buying, Fresh, Purchases
  <2> QED
    BY <2>1, <2>2, PurchasesFrame
<1>2. ASSUME NEW c \in Calls, SignUp(c)
      PROVE  Purchases'
  BY <1>2, SignUpShape, PurchasesSettled, PurchasesWorking DEF Plain, RegisterCommit
<1>3. ASSUME NEW c \in Calls, Watch(c)
      PROVE  Purchases'
  BY <1>3, WatchShape, PurchasesSettled, PurchasesWorking DEF Plain, StartCommit, database
<1>4. ASSUME NEW c \in Calls, Leave(c)
      PROVE  Purchases'
  BY <1>4, LeaveShape, PurchasesSettled, PurchasesWorking DEF Plain, CloseCommit, database
<1>5. ASSUME NEW c \in Calls, Crash(c) \/ BulkDeadlocked(c)
      PROVE  Purchases'
  BY <1>5, FailShape, PurchasesSettled DEF Plain, database
<1>6. ASSUME CallsRest
      PROVE  Purchases'
  BY <1>6 DEF CallsRest, work, Purchases, SubRows, ActiveOf, Buying, Opening, UserOf
<1> QED
  BY <1>1, <1>2, <1>3, <1>4, <1>5, <1>6, NextIs, NobodysSteps, BuyPurchases

LEMMA PurchasesHold == Spec => [](Shape /\ Purchases)
<1>1. Shape /\ Purchases /\ [Next]_vars => (Shape /\ Purchases)'
  BY ShapeNext, PurchasesNext
<1> QED
  BY <1>1, ShapeInit, PurchasesInit, PTL DEF Spec

\* However many purchases of one user run at once: never two active
\* subscriptions, and the unique index never has anything to refuse, for the
\* lock of the user has kept the others out.
THEOREM OneSubscriptionPerUser == Spec => []OneActiveSubscription
<1>1. Shape /\ Purchases => OneActiveSubscription
  <2> SUFFICES ASSUME Shape, Purchases
               PROVE  OneActiveSubscription
    OBVIOUS
  <2>1. ASSUME NEW u \in UserRows
        PROVE  Cardinality(ActiveOf(u)) <= 1
    <3>1. CASE ActiveOf(u) = {}
      BY <3>1, FS_EmptySet
    <3>2. ASSUME NEW s \in ActiveOf(u)
          PROVE  Cardinality(ActiveOf(u)) <= 1
      <4>1. ActiveOf(u) = {s}
        BY <3>2 DEF ActiveOf, Purchases
      <4>2. Cardinality({s}) = 1
        BY FS_Singleton
      <4> QED
        BY <4>1, <4>2
    <3> QED
      BY <3>1, <3>2
  <2>2. ASSUME NEW c \in Calls, pc[c] = "sub"
        PROVE  ActiveOf(UserOf(c)) \cup SameUserInFlight(c) = {}
    <3>1. Opening(c) /\ Buying(c)
      BY <2>2 DEF Shape, CallOK, PlaceOf, Opening, Buying
    <3>2. ActiveOf(UserOf(c)) = {}
      BY <3>1 DEF Purchases
    <3>3. ASSUME NEW d \in SameUserInFlight(c)
          PROVE  FALSE
      <4>1. d \in Calls \ {c} /\ Buying(d) /\ UserOf(d) = UserOf(c)
        BY <3>3 DEF SameUserInFlight, Buying
      <4> QED
        BY <3>1, <4>1 DEF Purchases
    <3> QED
      BY <3>2, <3>3
  <2> QED
    BY <2>1, <2>2 DEF OneActiveSubscription
<1> QED
  BY <1>1, PurchasesHold, PTL

-----------------------------------------------------------------------------
(* Payments. *)

\* The subscriptions a key has paid for.
PaidBy(k) == {p.sub : p \in {x \in payments : x.key = k}}

\* A call that neither comes to commit a purchase nor answers one.
LEMMA ReceiptsFrame ==
  ASSUME Receipts, NEW c \in Calls, OnlyCall(c), UNCHANGED <<subs, payments, betKeys>>,
         ~ At(c, "purchase", "commit")', ~ Answered(c)'
  PROVE  Receipts'
<1>1. \A d \in Calls \ {c} :
        /\ At(d, "purchase", "commit")' <=> At(d, "purchase", "commit")
        /\ KeyOf(d)' = KeyOf(d) /\ (Answered(d)' <=> Answered(d))
        /\ req'[d] = req[d] /\ pc'[d] = pc[d] /\ reply'[d] = reply[d]
  BY OthersSame DEF OnlyCall
<1>2. UsedKeys' = UsedKeys /\ PaidOnce'
  BY DEF UsedKeys, PaidOnce, Receipts
<1>3. BoughtOnce'
  BY <1>1 DEF BoughtOnce, Answered, Receipts
<1>4. \A d \in Calls : Answered(d)' =>
        pc'[d] = "done" /\ req'[d].op = "purchase" /\ KeyOf(d)' \in UsedKeys
  BY <1>1 DEF Receipts
<1>5. \A d \in Calls : At(d, "purchase", "commit")' => KeyOf(d)' \notin UsedKeys
  BY <1>1 DEF Receipts
<1>6. \A d, e \in Calls : d # e /\ At(d, "purchase", "commit")' /\ At(e, "purchase", "commit")' =>
        KeyOf(d)' # KeyOf(e)'
  BY <1>1 DEF Receipts
<1> QED
  BY <1>2, <1>3, <1>4, <1>5, <1>6 DEF Receipts

LEMMA ReceiptsSettled ==
  ASSUME Shape, Receipts, NEW c \in Calls, Settled(c), UNCHANGED <<subs, payments, betKeys>>,
         pc'[c] = "done" => reply'[c].kind \notin {"purchased", "replayed"}
  PROVE  Receipts'
<1>1. pc'[c] \in Fresh /\ OnlyCall(c) /\ reply[c].kind = "none"
  BY DEF Settled, Fresh, Shape, CallOK
<1>2. ~ At(c, "purchase", "commit")' /\ ~ Answered(c)'
  BY <1>1 DEF At, Fresh, Answered, Settled
<1> QED
  BY <1>1, <1>2, ReceiptsFrame

LEMMA ReceiptsWorking ==
  ASSUME Shape, Receipts, NEW c \in Calls, NEW op, Working(c, op),
         op # "purchase" \/ pc'[c] # "commit"
  PROVE  Receipts'
<1>1. OnlyCall(c) /\ UNCHANGED <<subs, payments, betKeys>> /\ ~ At(c, "purchase", "commit")'
  BY DEF Working, Moved, database, At
<1>2. ~ Answered(c)'
  BY DEF Shape, CallOK, Working, Moved, Answered
<1> QED
  BY <1>1, <1>2, ReceiptsFrame

LEMMA BuyReceipts ==
  ASSUME Shape, Receipts, NEW c \in Calls, Buy(c)
  PROVE  Receipts'
<1>0. Functions /\ CallOK(c)
  BY DEF Shape
<1>1. CASE Plain(c) /\ UNCHANGED database
  BY <1>1, ReceiptsSettled DEF Plain, Special, database
<1>2. CASE Working(c, "purchase") /\ BuyingStep(c)
  <2>1. CASE pc'[c] # "commit"
    BY <1>2, <2>1, ReceiptsWorking
  <2>2. CASE pc'[c] = "commit"
    <3>1. /\ OnlyCall(c) /\ UNCHANGED <<subs, payments, betKeys>> /\ KeyOf(c)' = KeyOf(c)
          /\ KeyOf(c) \notin UsedKeys /\ SameKeyInFlight(c) = {}
      BY <1>2, <2>2 DEF Working, Moved, database, BuyingStep, KeyOf
    <3>2. ~ Answered(c)'
      BY <1>0, <1>2 DEF CallOK, Working, Moved, Answered
    <3>3. \A d \in Calls \ {c} :
            /\ At(d, "purchase", "commit")' <=> At(d, "purchase", "commit")
            /\ KeyOf(d)' = KeyOf(d) /\ (Answered(d)' <=> Answered(d))
            /\ req'[d] = req[d] /\ pc'[d] = pc[d] /\ reply'[d] = reply[d]
      BY <3>1, OthersSame DEF OnlyCall
    <3>4. \A d \in Calls \ {c} : At(d, "purchase", "commit") => KeyOf(d) # KeyOf(c)
      BY <3>1 DEF SameKeyInFlight
    <3>5. UsedKeys' = UsedKeys /\ PaidOnce'
      BY <3>1 DEF UsedKeys, PaidOnce, Receipts
    <3>6. BoughtOnce'
      <4>1. ASSUME NEW d \in Calls, Answered(d)'
            PROVE  IF KeyOf(d)' \in betKeys THEN reply'[d].sub = None
                     ELSE PaidBy(KeyOf(d)') = {reply'[d].sub}
        BY <3>2, <3>3, <4>1 DEF Receipts, BoughtOnce, Answered, PaidBy
      <4> QED
        BY <3>1, <4>1 DEF BoughtOnce, Answered, PaidBy
    <3>7. \A d \in Calls : Answered(d)' =>
            pc'[d] = "done" /\ req'[d].op = "purchase" /\ KeyOf(d)' \in UsedKeys
      BY <3>2, <3>3 DEF Receipts
    <3>8. \A d \in Calls : At(d, "purchase", "commit")' => KeyOf(d)' \notin UsedKeys
      BY <3>1, <3>3 DEF Receipts
    <3>9. \A d, e \in Calls : d # e /\ At(d, "purchase", "commit")' /\ At(e, "purchase", "commit")' =>
            KeyOf(d)' # KeyOf(e)'
      BY <3>1, <3>3, <3>4 DEF Receipts
    <3> QED
      BY <3>5, <3>6, <3>7, <3>8, <3>9 DEF Receipts
  <2> QED
    BY <2>1, <2>2
<1>3. CASE /\ At(c, "purchase", "key") /\ Settled(c) /\ UNCHANGED database
           /\ KeyOf(c) \in UsedKeys
           /\ LET bought == {p.sub : p \in {x \in payments : x.key = KeyOf(c)}}
              IN  \E x \in IF bought = {} THEN {None} ELSE bought :
                    pc'[c] = "done" => reply'[c].kind = "replayed" /\ reply'[c].sub = x
  <2>1. UNCHANGED <<subs, payments, betKeys>> /\ OnlyCall(c) /\ ~ At(c, "purchase", "commit")'
    BY <1>3 DEF database, Settled, At, Fresh
  <2>2. PICK x \in IF PaidBy(KeyOf(c)) = {} THEN {None} ELSE PaidBy(KeyOf(c)) :
          pc'[c] = "done" => reply'[c].kind = "replayed" /\ reply'[c].sub = x
    BY <1>3 DEF PaidBy
  <2>3. CASE pc'[c] # "done"
    BY <1>3, <2>1, <2>3, ReceiptsSettled
  <2>4. CASE pc'[c] = "done"
    <3>1. /\ req'[c] = req[c] /\ KeyOf(c)' = KeyOf(c) /\ reply'[c].sub = x
          /\ pc'[c] = "done" /\ req[c].op = "purchase"
      BY <1>3, <2>2, <2>4 DEF Settled, KeyOf, At
    <3>2. \A d \in Calls \ {c} :
            /\ At(d, "purchase", "commit")' <=> At(d, "purchase", "commit")
            /\ KeyOf(d)' = KeyOf(d) /\ (Answered(d)' <=> Answered(d))
            /\ req'[d] = req[d] /\ pc'[d] = pc[d] /\ reply'[d] = reply[d]
      BY <2>1, OthersSame DEF OnlyCall
    <3>3. UsedKeys' = UsedKeys /\ PaidOnce'
      BY <2>1 DEF UsedKeys, PaidOnce, Receipts
    <3>4. IF KeyOf(c) \in betKeys THEN x = None ELSE PaidBy(KeyOf(c)) = {x}
      <4>1. CASE KeyOf(c) \in betKeys
        <5>1. {p \in payments : p.key = KeyOf(c)} = {}
          BY <4>1 DEF Receipts, PaidOnce
        <5>2. PaidBy(KeyOf(c)) = {}
          BY <5>1 DEF PaidBy
        <5> QED
          BY <2>2, <4>1, <5>2
      <4>2. CASE KeyOf(c) \notin betKeys
        <5>1. PICK p \in payments : p.key = KeyOf(c)
          BY <1>3, <4>2 DEF UsedKeys
        <5>2. {q \in payments : q.key = KeyOf(c)} = {p}
          BY <5>1 DEF Receipts, PaidOnce
        <5>3. PaidBy(KeyOf(c)) = {p.sub}
          BY <5>2 DEF PaidBy
        <5> QED
          BY <2>2, <4>2, <5>3
      <4> QED
        BY <4>1, <4>2
    <3>5. BoughtOnce'
      <4>1. ASSUME NEW d \in Calls, Answered(d)'
            PROVE  IF KeyOf(d)' \in betKeys THEN reply'[d].sub = None
                     ELSE PaidBy(KeyOf(d)') = {reply'[d].sub}
        <5>1. CASE d = c
          BY <3>1, <3>4, <5>1
        <5>2. CASE d # c
          BY <3>2, <4>1, <5>2 DEF Receipts, BoughtOnce, Answered, PaidBy
        <5> QED
          BY <5>1, <5>2
      <4> QED
        BY <2>1, <4>1 DEF BoughtOnce, Answered, PaidBy
    <3>6. \A d \in Calls : Answered(d)' =>
            pc'[d] = "done" /\ req'[d].op = "purchase" /\ KeyOf(d)' \in UsedKeys
      BY <1>3, <3>1, <3>2 DEF Receipts
    <3>7. \A d \in Calls : At(d, "purchase", "commit")' => KeyOf(d)' \notin UsedKeys
      BY <2>1, <3>2 DEF Receipts
    <3>8. \A d, e \in Calls : d # e /\ At(d, "purchase", "commit")' /\ At(e, "purchase", "commit")' =>
            KeyOf(d)' # KeyOf(e)'
      BY <2>1, <3>2 DEF Receipts
    <3> QED
      BY <3>3, <3>5, <3>6, <3>7, <3>8 DEF Receipts
  <2> QED
    BY <2>3, <2>4
<1>4. CASE /\ PurchaseCommit(c) /\ Settled(c)
           /\ pc'[c] = "done" => \/ reply'[c].kind = "purchased" /\ reply'[c].sub = c
                                 \/ reply'[c].kind = "unanswered"
  <2> DEFINE row == [id |-> c, user |-> UserOf(c), sub |-> c, key |-> KeyOf(c)]
  <2>1. /\ At(c, "purchase", "commit") /\ Paying(c) /\ OnlyCall(c)
        /\ subs' = subs \cup {sub[c]} /\ payments' = payments \cup {row} /\ betKeys' = betKeys
        /\ ~ At(c, "purchase", "commit")' /\ reply[c].kind = "none" /\ pc[c] # "done"
    BY <1>0, <1>4 DEF PurchaseCommit, Settled, At, Fresh, Paying, CallOK
  <2>2. KeyOf(c) \notin UsedKeys /\ sub[c].id = c /\ sub[c].user = UserOf(c)
    BY <1>0, <2>1 DEF Receipts, CallOK
  <2>3. row.key = KeyOf(c) /\ row.sub = c /\ row.user = UserOf(c)
    OBVIOUS
  <2> HIDE DEF row
  <2>4. UsedKeys' = UsedKeys \cup {KeyOf(c)}
    BY <2>1, <2>3 DEF UsedKeys
  <2>5. \A d \in Calls \ {c} :
          /\ At(d, "purchase", "commit")' <=> At(d, "purchase", "commit")
          /\ KeyOf(d)' = KeyOf(d) /\ (Answered(d)' <=> Answered(d))
          /\ req'[d] = req[d] /\ pc'[d] = pc[d] /\ reply'[d] = reply[d]
    BY <2>1, OthersSame DEF OnlyCall
  <2>6. PaidOnce'
    <3>1. \A p \in payments : p.key # row.key
      BY <2>2, <2>3 DEF UsedKeys
    <3>2. \A p, q \in payments' : p.key = q.key => p = q
      BY <2>1, <3>1 DEF Receipts, PaidOnce
    <3>3. \A p \in payments' : p.key \notin betKeys'
      BY <2>1, <2>2, <2>3 DEF Receipts, PaidOnce, UsedKeys
    <3>4. \A s \in subs' \ SeedSubs : \E p \in payments' : p.sub = s.id /\ p.user = s.user
      BY <2>1, <2>2, <2>3 DEF Receipts, PaidOnce
    <3>5. \A p \in payments' : \E s \in subs' : s.id = p.sub
      BY <2>1, <2>2, <2>3 DEF Receipts, PaidOnce
    <3> QED
      BY <3>2, <3>3, <3>4, <3>5 DEF PaidOnce
  <2>7. Answered(c)' => /\ pc'[c] = "done" /\ req'[c] = req[c] /\ reply'[c].sub = c
                        /\ KeyOf(c)' = KeyOf(c)
    BY <1>4, <2>1 DEF Answered, Settled, KeyOf
  <2>8. \A d \in Calls : Answered(d)' =>
          pc'[d] = "done" /\ req'[d].op = "purchase" /\ KeyOf(d)' \in UsedKeys'
    BY <2>1, <2>4, <2>5, <2>7 DEF Receipts, At
  <2>9. BoughtOnce'
    <3>1. ASSUME NEW d \in Calls, Answered(d)'
          PROVE  IF KeyOf(d)' \in betKeys THEN reply'[d].sub = None
                   ELSE {p.sub : p \in {x \in payments' : x.key = KeyOf(d)'}} = {reply'[d].sub}
      <4>1. CASE d = c
        <5>1. KeyOf(c) \notin betKeys /\ \A p \in payments : p.key # KeyOf(c)
          BY <2>2 DEF UsedKeys
        <5>2. {p \in payments' : p.key = KeyOf(c)} = {row}
          BY <2>1, <2>3, <5>1
        <5>3. {p.sub : p \in {x \in payments' : x.key = KeyOf(c)}} = {c}
          BY <2>3, <5>2
        <5> QED
          BY <2>7, <3>1, <4>1, <5>1, <5>3 DEF PaidBy
      <4>2. CASE d # c
        <5>1. KeyOf(d) \in UsedKeys /\ KeyOf(d)' = KeyOf(d) /\ reply'[d] = reply[d] /\ Answered(d)
          BY <2>5, <3>1, <4>2 DEF Receipts
        <5>2. {p \in payments' : p.key = KeyOf(d)} = {p \in payments : p.key = KeyOf(d)}
          BY <2>1, <2>2, <2>3, <5>1
        <5>3. IF KeyOf(d) \in betKeys THEN reply[d].sub = None
                ELSE PaidBy(KeyOf(d)) = {reply[d].sub}
          BY <5>1 DEF Receipts, BoughtOnce, Answered, PaidBy
        <5> QED
          BY <5>1, <5>2, <5>3 DEF PaidBy
      <4> QED
        BY <4>1, <4>2
    <3> QED
      BY <2>1, <3>1 DEF BoughtOnce, Answered, PaidBy
  <2>10. \A d \in Calls : At(d, "purchase", "commit")' => KeyOf(d)' \notin UsedKeys'
    BY <2>1, <2>4, <2>5 DEF Receipts
  <2>11. \A d, e \in Calls : d # e /\ At(d, "purchase", "commit")' /\ At(e, "purchase", "commit")' =>
           KeyOf(d)' # KeyOf(e)'
    BY <2>1, <2>5 DEF Receipts
  <2> QED
    BY <2>6, <2>8, <2>9, <2>10, <2>11 DEF Receipts
<1> QED
  BY <1>1, <1>2, <1>3, <1>4, BuyShape

LEMMA ReceiptsInit == Init => Receipts
<1> SUFFICES ASSUME Init
             PROVE  Receipts
  OBVIOUS
<1>1. \A c \in Calls : pc[c] = "idle" /\ reply[c].kind = "none"
  BY DEF Init
<1>2. \A c \in Calls : ~ At(c, "purchase", "commit") /\ ~ Answered(c)
  BY <1>1 DEF At, Answered
<1>3. PaidOnce /\ BoughtOnce
  BY <1>2 DEF Init, PaidOnce, BoughtOnce, Answered
<1> QED
  BY <1>2, <1>3 DEF Receipts

\* A bet takes a key that no payment has, nor one that is about to commit.
LEMMA BetReceipts ==
  ASSUME Receipts, NEW k \in BetKeys, BetCommits(k)
  PROVE  Receipts'
<1>1. /\ k \notin UsedKeys /\ \A c \in Calls : At(c, "purchase", "commit") => KeyOf(c) # k
      /\ betKeys' = betKeys \cup {k}
      /\ UNCHANGED <<subs, payments, req, pc, reply>>
  BY DEF BetCommits
<1>2. UsedKeys' = UsedKeys \cup {k}
  BY <1>1 DEF UsedKeys
<1>3. \A c \in Calls : /\ At(c, "purchase", "commit")' <=> At(c, "purchase", "commit")
                       /\ KeyOf(c)' = KeyOf(c) /\ (Answered(c)' <=> Answered(c))
  BY <1>1 DEF At, KeyOf, Answered
<1>4. PaidOnce'
  BY <1>1 DEF Receipts, PaidOnce, UsedKeys
<1>5. BoughtOnce'
  <2>1. ASSUME NEW c \in Calls, Answered(c)
        PROVE  IF KeyOf(c) \in betKeys' THEN reply[c].sub = None
                 ELSE PaidBy(KeyOf(c)) = {reply[c].sub}
    <3>1. KeyOf(c) \in UsedKeys
      BY <2>1 DEF Receipts
    <3>2. KeyOf(c) \in betKeys' <=> KeyOf(c) \in betKeys
      BY <1>1, <3>1
    <3> QED
      BY <2>1, <3>2 DEF Receipts, BoughtOnce, Answered, PaidBy
  <2> QED
    BY <1>1, <1>3, <2>1 DEF BoughtOnce, Answered, PaidBy
<1>6. \A c \in Calls : At(c, "purchase", "commit")' => KeyOf(c)' \notin UsedKeys'
  BY <1>1, <1>2, <1>3 DEF Receipts
<1>7. \A c, d \in Calls : c # d /\ At(c, "purchase", "commit")' /\ At(d, "purchase", "commit")' =>
        KeyOf(c)' # KeyOf(d)'
  BY <1>3 DEF Receipts
<1>8. \A c \in Calls : Answered(c)' =>
        pc'[c] = "done" /\ req'[c].op = "purchase" /\ KeyOf(c)' \in UsedKeys'
  BY <1>1, <1>2, <1>3 DEF Receipts
<1> QED
  BY <1>4, <1>5, <1>6, <1>7, <1>8 DEF Receipts

LEMMA ReceiptsNext == Shape /\ Receipts /\ [Next]_vars => Receipts'
<1> SUFFICES ASSUME Shape, Receipts, [Next]_vars
             PROVE  Receipts'
  OBVIOUS
<1>1. ASSUME NEW c \in Calls, NEW s \in Requests, Start(c, s)
      PROVE  Receipts'
  <2>1. /\ OnlyCall(c) /\ UNCHANGED <<subs, payments, betKeys>> /\ reply' = reply
        /\ pc[c] = "idle" /\ pc'[c] \in Fresh
    BY <1>1, StartShape DEF database
  <2>2. ~ At(c, "purchase", "commit")' /\ ~ Answered(c)'
    BY <2>1 DEF At, Fresh, Receipts, Answered
  <2> QED
    BY <2>1, <2>2, ReceiptsFrame
<1>2. ASSUME NEW c \in Calls, SignUp(c)
      PROVE  Receipts'
  <2>1. CASE RegisterCommit(c) /\ Settled(c)
             /\ (pc'[c] = "done" => reply'[c].kind \in {"registered", "unanswered"})
    BY <2>1, ReceiptsSettled DEF RegisterCommit
  <2> QED
    BY <1>2, <2>1, SignUpShape, ReceiptsSettled, ReceiptsWorking DEF Plain, Special
<1>3. ASSUME NEW c \in Calls, Watch(c)
      PROVE  Receipts'
  BY <1>3, WatchShape, ReceiptsSettled, ReceiptsWorking DEF Plain, Special, StartCommit, database
<1>4. ASSUME NEW c \in Calls, Leave(c)
      PROVE  Receipts'
  BY <1>4, LeaveShape, ReceiptsSettled, ReceiptsWorking DEF Plain, Special, CloseCommit, database
<1>5. ASSUME NEW c \in Calls, Crash(c) \/ BulkDeadlocked(c)
      PROVE  Receipts'
  BY <1>5, FailShape, ReceiptsSettled DEF Plain, Special, database
<1>6. ASSUME CallsRest, betKeys' = betKeys
      PROVE  Receipts'
  <2>1. UNCHANGED <<subs, payments, betKeys, req, pc, reply>>
    BY <1>6 DEF CallsRest
  <2>2. \A c \in Calls : /\ At(c, "purchase", "commit")' <=> At(c, "purchase", "commit")
                         /\ KeyOf(c)' = KeyOf(c) /\ (Answered(c)' <=> Answered(c))
    BY <2>1 DEF At, KeyOf, Answered
  <2>3. UsedKeys' = UsedKeys /\ PaidOnce' /\ BoughtOnce'
    BY <2>1, <2>2 DEF Receipts, UsedKeys, PaidOnce, BoughtOnce
  <2> QED
    BY <2>1, <2>2, <2>3 DEF Receipts
<1>7. ASSUME \/ \E e \in Events \cup Calls : EventStops(e)
             \/ NextDay
             \/ UNCHANGED vars
      PROVE  betKeys' = betKeys /\ CallsRest
  BY <1>7, NobodysSteps DEF EventStops, NextDay, vars, database
<1> QED
  BY <1>1, <1>2, <1>3, <1>4, <1>5, <1>6, <1>7, NextIs, BuyReceipts, BetReceipts

LEMMA ReceiptsHold == Spec => []Receipts
<1>1. Shape /\ Receipts /\ [Next]_vars => (Shape /\ Receipts)'
  BY ShapeNext, ReceiptsNext
<1> QED
  BY <1>1, ShapeInit, ReceiptsInit, PTL DEF Spec

\* A subscription is there with its payment or not at all, and no key pays twice,
\* be it for another user or for a bet.
THEOREM OnePaymentPerKey == Spec => []PaidOnce
<1>1. Receipts => PaidOnce
  BY DEF Receipts
<1> QED
  BY <1>1, ReceiptsHold, PTL

\* A purchase that is retried while the first still runs is never charged twice,
\* nor told of a subscription its key has not paid for.
THEOREM RetriesAreToldTheTruth == Spec => []BoughtOnce
<1>1. Receipts => BoughtOnce
  BY DEF Receipts
<1> QED
  BY <1>1, ReceiptsHold, PTL

-----------------------------------------------------------------------------
(* Seats. *)

\* Closing sessions takes none of their seats.
LEMMA FewerOpen ==
  ASSUME IsFiniteSet(sessions), sessions' = sessions, ended \subseteq ended', NEW s
  PROVE  /\ Cardinality(OpenOn(s)') <= Cardinality(OpenOn(s))
         /\ Cardinality(OpenOn(s)') \in Nat /\ Cardinality(OpenOn(s)) \in Nat
<1>1. OpenOn(s)' \subseteq OpenOn(s) /\ OpenOn(s) \subseteq sessions
  BY DEF OpenOn
<1> QED
  BY <1>1, FS_Subset, FS_CardinalityType

LEMMA SeatedIsStarting == \A c : Seated(c) => Starting(c)
BY DEF Seated, Starting

LEMMA CapType ==
  ASSUME Shape, NEW s, s \in Subscription
  PROVE  CapOf[s.plan] \in Nat \ {0}
BY SeatsAssumption DEF Subscription

\* A call that is at no start, or that has left its subscription as it was.
LEMMA SeatingFrame ==
  ASSUME Shape, Seating, NEW c \in Calls, OnlyCall(c), sessions' = sessions, subs' = subs,
         ended \subseteq ended', c \in SessionRows => pc'[c] = "done",
         Starting(c)' => \A d \in Calls \ {c} : Starting(d) => sub[d].id # sub'[c].id,
         Seated(c)' => sub'[c] = sub[c] /\ Starting(c)
                         /\ Cardinality(OpenOn(sub[c])) < CapOf[sub[c].plan]
  PROVE  Seating'
<1>1. \A d \in Calls \ {c} : /\ (Starting(d)' <=> Starting(d)) /\ (Seated(d)' <=> Seated(d))
                             /\ sub'[d] = sub[d] /\ pc'[d] = pc[d]
  BY OthersSame DEF OnlyCall
<1>2. \A s : /\ Cardinality(OpenOn(s)') <= Cardinality(OpenOn(s))
             /\ Cardinality(OpenOn(s)') \in Nat /\ Cardinality(OpenOn(s)) \in Nat
  BY FewerOpen DEF Seating
<1>3. SeatCap'
  <2>1. ASSUME NEW s \in subs
        PROVE  Cardinality(OpenOn(s)') <= CapOf[s.plan]
    <3>1. CapOf[s.plan] \in Nat /\ Cardinality(OpenOn(s)) <= CapOf[s.plan]
      BY <2>1, CapType DEF Shape, Tables, Seating, SeatCap
    <3> QED
      BY <1>2, <3>1
  <2> QED
    BY <2>1 DEF SeatCap, OpenOn
<1>4. ASSUME NEW d \in Calls, Seated(d)'
      PROVE  Cardinality(OpenOn(sub[d])') < CapOf[sub[d].plan] /\ sub'[d] = sub[d]
  <2>1. /\ Cardinality(OpenOn(sub[d])) < CapOf[sub[d].plan] /\ sub'[d] = sub[d]
        /\ sub[d] \in subs
    BY <1>1, <1>4, SeatedIsStarting DEF Seating, Shape, CallOK
  <2>2. CapOf[sub[d].plan] \in Nat
    BY <2>1, CapType DEF Shape, Tables
  <2>3. Cardinality(OpenOn(sub[d])') = Cardinality({x \in sessions : x.sub = sub'[d].id /\ x.id \notin ended'})
    BY <2>1 DEF OpenOn
  <2> QED
    BY <1>2, <2>1, <2>2, FewerOpen DEF Seating
<1> QED
  BY <1>1, <1>3, <1>4 DEF Seating, SessionRows, OpenOn

\* A call that runs has not inserted its session yet.
LEMMA NotWatching ==
  ASSUME Seating, NEW c \in Calls, pc[c] # "done"
  PROVE  c \notin SessionRows
BY DEF Seating

LEMMA SeatingSettled ==
  ASSUME Shape, Seating, NEW c \in Calls, Settled(c),
         sessions' = sessions, subs' = subs, ended \subseteq ended'
  PROVE  Seating'
<1>1. OnlyCall(c) /\ pc'[c] \in Fresh /\ c \notin SessionRows
  BY NotWatching DEF Settled, Fresh
<1>2. ~ Starting(c)' /\ ~ Seated(c)'
  BY <1>1 DEF Starting, Seated, Fresh
<1> QED
  BY <1>1, <1>2, SeatingFrame

LEMMA SeatingWorking ==
  ASSUME Shape, Seating, NEW c \in Calls, NEW op, op # "start", Working(c, op)
  PROVE  Seating'
<1>1. /\ OnlyCall(c) /\ c \notin SessionRows /\ req'[c].op # "start"
      /\ sessions' = sessions /\ subs' = subs /\ ended' = ended
  BY NotWatching DEF Working, Moved, database
<1>2. ~ Starting(c)' /\ ~ Seated(c)'
  BY <1>1 DEF Starting, Seated
<1> QED
  BY <1>1, <1>2, SeatingFrame

\* A start is granted the lock of its subscription when no other has it.
LEMMA SubGranted ==
  ASSUME Shape, NEW c \in Calls, At(c, "start", "lock"), Granted(c),
         NEW s \in ActiveOf(UserOf(c)), NEW d \in Calls \ {c}, Starting(d)
  PROVE  sub[d].id # s.id
<1> SUFFICES ASSUME sub[d].id = s.id
             PROVE  FALSE
  OBVIOUS
<1>1. SubLock(s.id) \in held[d] /\ DOMAIN held = Calls
  BY DEF Shape, CallOK, Locks, Functions
<1>2. SubLock(s.id) \in Wanted(c)
  <2>1. Wanted(c) = ForUpdate("sub", {t.id : t \in ActiveOf(UserOf(c))})
    BY DEF At, Wanted
  <2>2. s.id \in {t.id : t \in ActiveOf(UserOf(c))}
    OBVIOUS
  <2> QED
    BY <2>1, <2>2 DEF ForUpdate, SubLock
<1>3. Conflict(SubLock(s.id), SubLock(s.id))
  BY DEF Conflict, SubLock
<1> QED
  BY <1>1, <1>2, <1>3 DEF Granted, Holders

LEMMA StartingSeating ==
  ASSUME Shape, Seating, NEW c \in Calls, Working(c, "start"), StartingStep(c)
  PROVE  Seating'
<1>1. /\ OnlyCall(c) /\ c \notin SessionRows /\ req[c].op = "start" /\ req'[c] = req[c]
      /\ sessions' = sessions /\ subs' = subs /\ ended' = ended
  BY NotWatching DEF Working, Moved, database
<1>2. ASSUME NEW d \in Calls \ {c}, Starting(d)
      PROVE  sub[d].id # sub'[c].id
  <2>1. CASE pc[c] = "lock"
    BY <1>1, <1>2, <2>1, SubGranted DEF StartingStep, At
  <2>2. CASE pc[c] # "lock"
    <3>1. Starting(c) /\ sub'[c] = sub[c]
      BY <1>1, <2>2 DEF StartingStep, Starting
    <3> QED
      BY <1>2, <3>1 DEF Seating
  <2> QED
    BY <2>1, <2>2
<1>3. Seated(c)' => sub'[c] = sub[c] /\ Starting(c)
                      /\ Cardinality(OpenOn(sub[c])) < CapOf[sub[c].plan]
  BY <1>1 DEF StartingStep, Seated, Starting, Seating
<1> QED
  BY <1>1, <1>2, <1>3, SeatingFrame

\* A session takes the seat that was counted.
LEMMA SessionTakesSeat ==
  ASSUME Shape, Purchases, Seating, NEW c \in Calls, StartCommit(c)
  PROVE  LET x == [id |-> c, sub |-> sub[c].id, event |-> EventFor(c)]
         IN  /\ x \notin sessions /\ x.id \notin ended /\ sessions' = sessions \cup {x}
             /\ sub[c] \in subs /\ Seated(c) /\ Starting(c) /\ Rank(req[c]) = 3
             /\ \A s : s.id # sub[c].id => OpenOn(s)' = OpenOn(s)
             /\ Cardinality(OpenOn(sub[c])) < CapOf[sub[c].plan]
             /\ Cardinality(OpenOn(sub[c])) \in Nat
             /\ \A s : s.id = sub[c].id =>
                  /\ OpenOn(s) = OpenOn(sub[c])
                  /\ Cardinality(OpenOn(s)') = Cardinality(OpenOn(sub[c])) + 1
<1> DEFINE x == [id |-> c, sub |-> sub[c].id, event |-> EventFor(c)]
<1>1. /\ pc[c] = "commit" /\ req[c].op = "start" /\ sessions' = sessions \cup {x}
      /\ ended' = ended
  BY DEF StartCommit, At
<1>2. Starting(c) /\ Seated(c) /\ Rank(req[c]) = 3 /\ sub[c] \in subs
  BY <1>1 DEF Starting, Seated, Rank, Shape, CallOK
<1>3. c \notin SessionRows /\ c \notin ended
  BY <1>1 DEF Seating, Shape, Tables
<1>4. x.id = c /\ x.sub = sub[c].id
  OBVIOUS
<1> HIDE DEF x
<1>5. x \notin sessions
  BY <1>3, <1>4 DEF SessionRows
<1>6. \A s : s.id # sub[c].id => OpenOn(s)' = OpenOn(s)
  BY <1>1, <1>4 DEF OpenOn
<1>7. IsFiniteSet(OpenOn(sub[c])) /\ Cardinality(OpenOn(sub[c])) \in Nat
  <2>1. OpenOn(sub[c]) \subseteq sessions
    BY DEF OpenOn
  <2> QED
    BY <2>1, FS_Subset, FS_CardinalityType DEF Seating
<1>8. ASSUME NEW s, s.id = sub[c].id
      PROVE  /\ OpenOn(s) = OpenOn(sub[c])
             /\ Cardinality(OpenOn(s)') = Cardinality(OpenOn(sub[c])) + 1
  <2>1. OpenOn(s) = OpenOn(sub[c])
    BY <1>8 DEF OpenOn
  <2>2. OpenOn(s)' = OpenOn(sub[c]) \cup {x}
    BY <1>1, <1>3, <1>4, <1>8 DEF OpenOn
  <2>3. x \notin OpenOn(sub[c])
    BY <1>5 DEF OpenOn
  <2> QED
    BY <1>7, <2>1, <2>2, <2>3, FS_AddElement
<1>9. Cardinality(OpenOn(sub[c])) < CapOf[sub[c].plan]
  BY <1>2 DEF Seating
<1> QED
  BY <1>1, <1>2, <1>3, <1>4, <1>5, <1>6, <1>7, <1>8, <1>9 DEF x

LEMMA StartCommitSeating ==
  ASSUME Shape, Purchases, Seating, NEW c \in Calls, StartCommit(c), Settled(c)
  PROVE  Seating'
<1> DEFINE x == [id |-> c, sub |-> sub[c].id, event |-> EventFor(c)]
<1>1. /\ x \notin sessions /\ sessions' = sessions \cup {x}
      /\ sub[c] \in subs /\ Starting(c) /\ Rank(req[c]) = 3
      /\ \A s : s.id # sub[c].id => OpenOn(s)' = OpenOn(s)
      /\ Cardinality(OpenOn(sub[c])) < CapOf[sub[c].plan]
      /\ Cardinality(OpenOn(sub[c])) \in Nat
      /\ \A s : s.id = sub[c].id =>
           Cardinality(OpenOn(s)') = Cardinality(OpenOn(sub[c])) + 1
  BY SessionTakesSeat
<1>2. x.id = c /\ x.sub = sub[c].id /\ subs' = subs /\ ended' = ended
  BY DEF StartCommit
<1> HIDE DEF x
<1>3. pc'[c] = "done" /\ OnlyCall(c)
  BY <1>1, RankBound DEF Settled
<1>4. ~ Starting(c)' /\ ~ Seated(c)'
  BY <1>3 DEF Starting, Seated
<1>5. \A d \in Calls \ {c} : /\ (Starting(d)' <=> Starting(d)) /\ (Seated(d)' <=> Seated(d))
                             /\ sub'[d] = sub[d] /\ pc'[d] = pc[d]
  BY <1>3, OthersSame DEF OnlyCall
<1>6. IsFiniteSet(sessions')
  BY <1>1, FS_AddElement DEF Seating
<1>7. ASSUME NEW s \in subs
      PROVE  Cardinality(OpenOn(s)') <= CapOf[s.plan]
  <2>1. CASE s.id = sub[c].id
    <3>1. s = sub[c] /\ CapOf[s.plan] \in Nat
      BY <1>1, <2>1, CapType DEF Purchases, Shape, Tables
    <3> QED
      BY <1>1, <3>1
  <2>2. CASE s.id # sub[c].id
    BY <1>1, <2>2 DEF Seating, SeatCap
  <2> QED
    BY <2>1, <2>2
<1>8. SeatCap'
  BY <1>2, <1>7 DEF SeatCap, OpenOn
<1>9. \A y \in sessions' : \E s \in subs' : s.id = y.sub
  BY <1>1, <1>2 DEF Seating
<1>10. \A d \in Calls : d \in SessionRows' => pc'[d] = "done"
  BY <1>1, <1>2, <1>3, <1>5 DEF Seating, SessionRows
<1>11. \A d, e \in Calls : d # e /\ Starting(d)' /\ Starting(e)' => sub'[d].id # sub'[e].id
  BY <1>4, <1>5 DEF Seating
<1>12. ASSUME NEW d \in Calls, Seated(d)'
       PROVE  Cardinality(OpenOn(sub[d])') < CapOf[sub[d].plan] /\ sub'[d] = sub[d]
  <2>1. d # c /\ Seated(d) /\ Starting(d) /\ sub'[d] = sub[d]
    BY <1>4, <1>5, <1>12, SeatedIsStarting
  <2>2. sub[d].id # sub[c].id
    BY <1>1, <2>1 DEF Seating
  <2>3. OpenOn(sub[d])' = OpenOn(sub[d])
    <3>1. \A y \in sessions' : y.sub = sub'[d].id => y \in sessions
      BY <1>1, <1>2, <2>1, <2>2
    <3> QED
      BY <1>1, <1>2, <2>1, <3>1 DEF OpenOn
  <2> QED
    BY <2>1, <2>3 DEF Seating
<1> QED
  BY <1>6, <1>8, <1>9, <1>10, <1>11, <1>12 DEF Seating, OpenOn

\* A subscription that is new has no sessions.
LEMMA PurchaseCommitSeating ==
  ASSUME Shape, Purchases, Seating, NEW c \in Calls, PurchaseCommit(c), Settled(c)
  PROVE  Seating'
<1>1. /\ pc[c] = "commit" /\ req[c].op = "purchase" /\ Paying(c) /\ Rank(req[c]) = 2
      /\ subs' = subs \cup {sub[c]} /\ sessions' = sessions /\ ended' = ended
  BY DEF PurchaseCommit, At, Paying, Rank
<1>2. sub[c].id = c /\ sub[c] \in Subscription /\ c \notin SubRows
  BY <1>1 DEF Shape, CallOK, Purchases
<1>3. OnlyCall(c) /\ pc'[c] \in Fresh /\ c \notin SessionRows
  BY NotWatching DEF Settled, Fresh
<1>4. ~ Starting(c)' /\ ~ Seated(c)'
  BY <1>3 DEF Starting, Seated, Fresh
<1>5. \A d \in Calls \ {c} : /\ (Starting(d)' <=> Starting(d)) /\ (Seated(d)' <=> Seated(d))
                             /\ sub'[d] = sub[d] /\ pc'[d] = pc[d]
  BY <1>3, OthersSame DEF OnlyCall
<1>6. Cardinality(OpenOn(sub[c])) <= CapOf[sub[c].plan]
  <2>1. OpenOn(sub[c]) = {}
    BY <1>2 DEF OpenOn, Seating, SubRows
  <2>2. CapOf[sub[c].plan] \in Nat
    BY <1>2, CapType
  <2> QED
    BY <2>1, <2>2, FS_EmptySet
<1>7. \A s : OpenOn(s)' = OpenOn(s)
  BY <1>1 DEF OpenOn
<1>8. SeatCap'
  BY <1>1, <1>6, <1>7 DEF Seating, SeatCap, OpenOn
<1>9. \A d \in Calls : Seated(d)' =>
        Cardinality({x \in sessions : x.sub = sub'[d].id /\ x.id \notin ended})
          < CapOf[sub'[d].plan]
  BY <1>4, <1>5 DEF Seating, OpenOn
<1> QED
  BY <1>1, <1>3, <1>4, <1>5, <1>8, <1>9 DEF Seating, SessionRows, OpenOn

LEMMA SeatingInit == Init => Seating
<1> SUFFICES ASSUME Init
             PROVE  Seating
  OBVIOUS
<1>1. \A c \in Calls : ~ Starting(c) /\ ~ Seated(c)
  BY DEF Init, Starting, Seated
<1>2. \A s : OpenOn(s) = {x \in SeedSessions : x.sub = s.id}
  BY DEF Init, OpenOn
<1>3. \A c \in Calls : c \notin SessionRows
  BY SeatsAssumption, SeedsAssumption DEF Init, SessionRows
<1>4. SeatCap
  BY <1>2, SeedsAssumption DEF Init, SeatCap
<1> QED
  BY <1>1, <1>3, <1>4, SeedsAssumption DEF Init, Seating

LEMMA SeatingNext == Shape /\ Purchases /\ Seating /\ [Next]_vars => Seating'
<1> SUFFICES ASSUME Shape, Purchases, Seating, [Next]_vars
             PROVE  Seating'
  OBVIOUS
<1>1. ASSUME NEW c \in Calls, NEW s \in Requests, Start(c, s)
      PROVE  Seating'
  <2>1. /\ OnlyCall(c) /\ sessions' = sessions /\ subs' = subs /\ ended' = ended
        /\ pc[c] = "idle" /\ pc'[c] \in Fresh
    BY <1>1, StartShape DEF database
  <2>2. ~ Starting(c)' /\ ~ Seated(c)' /\ c \notin SessionRows
    BY <2>1, NotWatching DEF Starting, Seated, Fresh
  <2> QED
    BY <2>1, <2>2, SeatingFrame
<1>2. ASSUME NEW c \in Calls, SignUp(c)
      PROVE  Seating'
  BY <1>2, SignUpShape, SeatingSettled, SeatingWorking DEF Plain, RegisterCommit
<1>3. ASSUME NEW c \in Calls, Buy(c)
      PROVE  Seating'
  BY <1>3, BuyShape, SeatingSettled, SeatingWorking, PurchaseCommitSeating DEF Plain, database
<1>4. ASSUME NEW c \in Calls, Watch(c)
      PROVE  Seating'
  BY <1>4, WatchShape, SeatingSettled, StartingSeating, StartCommitSeating DEF Plain, database
<1>5. ASSUME NEW c \in Calls, Leave(c)
      PROVE  Seating'
  BY <1>5, LeaveShape, SeatingSettled, SeatingWorking DEF Plain, CloseCommit, database
<1>6. ASSUME NEW c \in Calls, Crash(c) \/ BulkDeadlocked(c)
      PROVE  Seating'
  BY <1>6, FailShape, SeatingSettled DEF Plain, database
<1>7. ASSUME CallsRest
      PROVE  Seating'
  BY <1>7 DEF CallsRest, work, Seating, SeatCap, OpenOn, SessionRows, Starting, Seated
<1> QED
  BY <1>1, <1>2, <1>3, <1>4, <1>5, <1>6, <1>7, NextIs, NobodysSteps

LEMMA SeatingHolds == Spec => [](Shape /\ Purchases /\ Seating)
<1>1. Shape /\ Purchases /\ Seating /\ [Next]_vars => (Shape /\ Purchases /\ Seating)'
  BY ShapeNext, PurchasesNext, SeatingNext
<1> QED
  BY <1>1, ShapeInit, PurchasesInit, SeatingInit, PTL DEF Spec

\* However many sessions of one user start at once, and whatever ends meanwhile:
\* no more are open than the plan has seats.
THEOREM SeatsKept == Spec => []SeatCap
<1>1. Seating => SeatCap
  BY DEF Seating
<1> QED
  BY <1>1, SeatingHolds, PTL

-----------------------------------------------------------------------------
(* The pool of seats. *)

PoolSame == UNCHANGED <<subs, sessions, ended>>

LEMMA PoolStutters == PoolSame => [Pool!Next]_Pool!vars
BY DEF PoolSame, Pool!vars

LEMMA PoolSubscribes ==
  ASSUME Shape, Purchases, NEW c \in Calls, PurchaseCommit(c)
  PROVE  Pool!Next
<1>1. /\ pc[c] = "commit" /\ req[c].op = "purchase" /\ Paying(c) /\ Opening(c)
      /\ subs' = subs \cup {sub[c]} /\ sessions' = sessions /\ ended' = ended
  BY DEF PurchaseCommit, At, Paying, Opening
<1>2. sub[c].user = UserOf(c) /\ ActiveOf(UserOf(c)) = {}
  BY <1>1 DEF Shape, CallOK, Purchases
<1>3. \A t \in subs : t.user # sub[c].user
  BY <1>2 DEF ActiveOf
<1>4. sub[c] \in subs' \ subs
  BY <1>1, <1>3
<1>5. Pool!Subscribe
  BY <1>1, <1>3, <1>4 DEF Pool!Subscribe
<1> QED
  BY <1>5 DEF Pool!Next

LEMMA PoolTakesSeat ==
  ASSUME Shape, Purchases, Seating, NEW c \in Calls, StartCommit(c)
  PROVE  Pool!Next
<1> DEFINE x == [id |-> c, sub |-> sub[c].id, event |-> EventFor(c)]
<1>1. /\ x \notin sessions /\ x.id \notin ended /\ sessions' = sessions \cup {x}
      /\ sub[c] \in subs /\ Cardinality(OpenOn(sub[c])) < CapOf[sub[c].plan]
  BY SessionTakesSeat
<1>2. x.sub = sub[c].id /\ subs' = subs /\ ended' = ended
  BY DEF StartCommit
<1> HIDE DEF x
<1>3. Pool!Taken(sub[c]) = OpenOn(sub[c])
  BY DEF Pool!Taken, OpenOn
<1>4. x \in {y \in sessions' : y.id \notin ended'} \ {y \in sessions : y.id \notin ended}
  BY <1>1, <1>2
<1>5. x \notin {y \in sessions : y.id \in ended}
  BY <1>1
<1>6. {y \in sessions' : y.id \notin ended'} = {y \in sessions : y.id \notin ended} \cup {x}
  BY <1>1, <1>2
<1>7. {y \in sessions' : y.id \in ended'} = {y \in sessions : y.id \in ended}
  BY <1>1, <1>2
<1>8. \E s \in subs : s.id = x.sub /\ Cardinality(Pool!Taken(s)) < CapOf[s.plan]
  BY <1>1, <1>2, <1>3
<1>9. \A S : Pool!Cardinality(S) = Cardinality(S)
  BY DEF Pool!Cardinality, Cardinality
<1>10. Pool!TakeSeat
  BY <1>2, <1>4, <1>5, <1>6, <1>7, <1>8, <1>9 DEF Pool!TakeSeat
<1> QED
  BY <1>10 DEF Pool!Next

LEMMA PoolFreesSeats ==
  ASSUME NEW c \in Calls, CloseCommit(c)
  PROVE  Pool!Next
<1>1. subs' = subs /\ sessions' = sessions /\ ended' = ended \cup closed[c]
  BY DEF CloseCommit
<1>2. Pool!FreeSeats
  BY <1>1 DEF Pool!FreeSeats
<1> QED
  BY <1>2 DEF Pool!Next

\* The transactions, statement by statement, do what the indivisible operations
\* of SeatPool do: a purchase opens a subscription where there is none, a start
\* takes a seat that is free when it commits, a close gives seats back for good.
THEOREM SeatsImplementPool == Spec => SeatsAtomically
<1>1. Init => Pool!Init
  BY DEF Init, Pool!Init
<1>2. Shape /\ Purchases /\ Seating /\ [Next]_vars => [Pool!Next]_Pool!vars
  <2> SUFFICES ASSUME Shape, Purchases, Seating, [Next]_vars
               PROVE  [Pool!Next]_Pool!vars
    OBVIOUS
  <2>1. ASSUME NEW c \in Calls, NEW s \in Requests, Start(c, s)
        PROVE  [Pool!Next]_Pool!vars
    BY <2>1, StartShape, PoolStutters DEF database, PoolSame
  <2>2. ASSUME NEW c \in Calls, SignUp(c)
        PROVE  [Pool!Next]_Pool!vars
    BY <2>2, SignUpShape, PoolStutters DEF RegisterCommit, Working, database, PoolSame
  <2>3. ASSUME NEW c \in Calls, Buy(c)
        PROVE  [Pool!Next]_Pool!vars
    BY <2>3, BuyShape, PoolStutters, PoolSubscribes DEF Working, database, PoolSame
  <2>4. ASSUME NEW c \in Calls, Watch(c)
        PROVE  [Pool!Next]_Pool!vars
    BY <2>4, WatchShape, PoolStutters, PoolTakesSeat DEF Working, database, PoolSame
  <2>5. ASSUME NEW c \in Calls, Leave(c)
        PROVE  [Pool!Next]_Pool!vars
    BY <2>5, LeaveShape, PoolStutters, PoolFreesSeats DEF Working, database, PoolSame
  <2>6. ASSUME NEW c \in Calls, Crash(c) \/ BulkDeadlocked(c)
        PROVE  [Pool!Next]_Pool!vars
    BY <2>6, FailShape, PoolStutters DEF database, PoolSame
  <2>7. ASSUME CallsRest
        PROVE  [Pool!Next]_Pool!vars
    BY <2>7, PoolStutters DEF CallsRest, PoolSame
  <2> QED
    BY <2>1, <2>2, <2>3, <2>4, <2>5, <2>6, <2>7, NextIs, NobodysSteps
<1> QED
  BY <1>1, <1>2, SeatingHolds, PTL DEF Spec, SeatsAtomically, Pool!Spec

-----------------------------------------------------------------------------
(* Who waits for whom. *)

LEMMA NoCycle ==
  ASSUME NEW c \in Calls, NEW S \in SUBSET Calls, WaitsFor[c] \subseteq S,
         \A d \in S : WaitsFor[d] \subseteq S, c \notin S
  PROVE  ~ OnCycle(c, WaitsFor)
<1>1. DOMAIN WaitsFor = Calls
  BY DEF WaitsFor
<1> HIDE DEF WaitsFor
<1> QED
  BY <1>1 DEF OnCycle

\* A statement that takes no lock and inserts nothing unique waits for nobody.
LEMMA WaitsForNobody ==
  ASSUME NEW c \in Calls,
         pc[c] \notin {"email", "user", "sub", "payment", "lock", "session", "close"}
  PROVE  WaitsFor[c] = {}
<1>1. Wanted(c) = {}
  BY WantsNothing
<1>2. Holders(held, c, Wanted(c)) = {}
  BY <1>1 DEF Holders
<1> QED
  BY <1>2 DEF WaitsFor

\* What a key-share lock of a user or an event waits for: a purchase that has
\* locked the user.
LEMMA KeyShareWaits ==
  ASSUME Shape, NEW c \in Calls, NEW wanted,
         \A l \in wanted : l.mode = "key_share" /\ l.row[1] \in {"user", "event"},
         NEW d \in Holders(held, c, wanted)
  PROVE  /\ d \in Calls \ {c} /\ Buying(d)
         /\ \E l \in wanted : l.row = <<"user", UserOf(d)>>
<1>1. d \in Calls \ {c}
  BY DEF Holders, Shape, Functions
<1>2. PICK l \in wanted, m \in held[d] : Conflict(l, m)
  BY DEF Holders
<1>3. l.row = m.row /\ m.mode # "key_share" /\ m.row[1] \notin {"sub", "session"}
  BY <1>2 DEF Conflict
<1>4. Buying(d) /\ m = UserLock(UserOf(d))
  BY <1>1, <1>2, <1>3 DEF Shape, CallOK, Locks
<1>5. m.row = <<"user", UserOf(d)>>
  BY <1>4 DEF UserLock
<1> QED
  BY <1>1, <1>2, <1>3, <1>4, <1>5

\* A purchase past its lock waits for purchases that are about to commit, and
\* they wait for nobody.
LEMMA BuyingWaits ==
  ASSUME Shape, Purchases, NEW c \in Calls, Buying(c)
  PROVE  \A d \in WaitsFor[c] : d \in Calls \ {c} /\ At(d, "purchase", "commit")
<1> DEFINE wanted == KeyShare("user", {UserOf(c)})
<1>1. Holders(held, c, wanted) = {}
  <2>1. \A l \in wanted : /\ l.mode = "key_share" /\ l.row = <<"user", UserOf(c)>>
                          /\ l.row[1] \in {"user", "event"}
    BY DEF KeyShare
  <2> HIDE DEF wanted
  <2>2. ASSUME NEW d \in Holders(held, c, wanted)
        PROVE  FALSE
    <3>1. /\ d \in Calls \ {c} /\ Buying(d)
          /\ \E l \in wanted : l.row = <<"user", UserOf(d)>>
      BY <2>1, <2>2, KeyShareWaits
    <3>2. UserOf(d) = UserOf(c)
      BY <2>1, <3>1
    <3> QED
      BY <3>1, <3>2 DEF Purchases
  <2> QED
    BY <2>2
<1>2. CASE pc[c] = "sub"
  <2>1. Wanted(c) = wanted
    BY <1>2 DEF Wanted, At
  <2>2. WaitsFor[c] = Holders(held, c, Wanted(c)) \cup SameUserInFlight(c)
    BY <1>2 DEF WaitsFor
  <2>3. ASSUME NEW d \in SameUserInFlight(c)
        PROVE  FALSE
    <3>1. d \in Calls \ {c} /\ Buying(d) /\ UserOf(d) = UserOf(c)
      BY <2>3 DEF SameUserInFlight, Buying
    <3> QED
      BY <3>1 DEF Purchases
  <2> QED
    BY <1>1, <2>1, <2>2, <2>3
<1>3. CASE pc[c] = "payment"
  <2>1. Wanted(c) = wanted
    BY <1>3 DEF Wanted, At
  <2>2. WaitsFor[c] = Holders(held, c, Wanted(c)) \cup SameKeyInFlight(c)
    BY <1>3 DEF WaitsFor
  <2> QED
    BY <1>1, <2>1, <2>2 DEF SameKeyInFlight
<1>4. CASE pc[c] \notin {"sub", "payment"}
  <2>1. pc[c] \in {"key", "active", "commit"}
    BY <1>4 DEF Buying
  <2> QED
    BY <2>1, WaitsForNobody
<1> QED
  BY <1>2, <1>3, <1>4

\* Nobody waits for a call between two transactions.
LEMMA FreshHoldsNobodyUp ==
  ASSUME Shape, NEW c \in Calls, pc[c] \in Fresh, NEW d \in Calls
  PROVE  WaitsFor[d] \subseteq Calls \ {c}
<1>1. held[c] = {} /\ DOMAIN held = Calls
  BY DEF Shape, CallOK, Locks, Functions
<1>2. \A wanted : Holders(held, d, wanted) \subseteq Calls \ {c}
  BY <1>1 DEF Holders
<1>3. SameEmailInFlight(d) \cup SameUserInFlight(d) \cup SameKeyInFlight(d) \subseteq Calls \ {c}
  BY DEF SameEmailInFlight, SameUserInFlight, SameKeyInFlight, At, Fresh
<1> QED
  BY <1>2, <1>3 DEF WaitsFor

\* A start past its lock waits for purchases of its user.
LEMMA StartingWaits ==
  ASSUME Shape, NEW c \in Calls, Starting(c)
  PROVE  \A d \in WaitsFor[c] : d \in Calls \ {c} /\ Buying(d)
<1>1. CASE pc[c] = "session"
  <2> DEFINE wanted == KeyShare("user", {UserOf(c)}) \cup KeyShare("event", {EventFor(c)})
  <2>1. Wanted(c) = wanted
    BY <1>1 DEF Wanted, At
  <2>2. \A l \in wanted : l.mode = "key_share" /\ l.row[1] \in {"user", "event"}
    BY DEF KeyShare
  <2>3. WaitsFor[c] = Holders(held, c, Wanted(c))
    BY <1>1 DEF WaitsFor
  <2> HIDE DEF wanted
  <2> QED
    BY <2>1, <2>2, <2>3, KeyShareWaits
<1>2. CASE pc[c] # "session"
  <2>1. pc[c] \in {"event", "count", "commit"}
    BY <1>2 DEF Starting
  <2> QED
    BY <2>1, WaitsForNobody
<1> QED
  BY <1>1, <1>2

\* Whoever waits in a circle is at a bulk close: a call between two transactions
\* holds nobody up, purchases past their lock wait for purchases about to
\* commit, starts for purchases.
THEOREM OnlyBulkClosesDeadlock == Spec => []OnlyBulksDeadlock
<1>1. Shape /\ Purchases => OnlyBulksDeadlock
  <2> SUFFICES ASSUME Shape, Purchases, NEW c \in Calls, req[c].op # "bulk"
               PROVE  ~ OnCycle(c, WaitsFor)
    BY DEF OnlyBulksDeadlock
  <2>1. CASE pc[c] \in Fresh
    <3>1. \A d \in Calls : WaitsFor[d] \subseteq Calls \ {c}
      BY <2>1, FreshHoldsNobodyUp
    <3> DEFINE S == Calls \ {c}
    <3>2. S \in SUBSET Calls /\ WaitsFor[c] \subseteq S /\ c \notin S
          /\ \A d \in S : WaitsFor[d] \subseteq S
      BY <3>1
    <3> HIDE DEF S
    <3> QED
      BY <3>2, NoCycle
  <2>2. CASE Buying(c)
    <3>1. ASSUME NEW d \in WaitsFor[c]
          PROVE  WaitsFor[d] = {}
      <4>1. d \in Calls /\ pc[d] = "commit"
        BY <2>2, BuyingWaits DEF At
      <4> QED
        BY <4>1, WaitsForNobody
    <3>2. WaitsFor[c] \subseteq Calls /\ c \notin WaitsFor[c]
      BY <2>2, BuyingWaits
    <3> QED
      BY <3>1, <3>2, NoCycle
  <2>3. CASE Starting(c)
    <3> DEFINE S == {d \in Calls : Buying(d)}
    <3>1. WaitsFor[c] \subseteq S
      BY <2>3, StartingWaits
    <3>2. c \notin S
      BY <2>3 DEF Starting, Buying
    <3>3. ASSUME NEW d \in S
          PROVE  WaitsFor[d] \subseteq S
      <4>1. ASSUME NEW e \in WaitsFor[d]
            PROVE  e \in Calls /\ Buying(e)
        <5>1. e \in Calls /\ At(e, "purchase", "commit")
          BY <4>1, BuyingWaits
        <5> QED
          BY <5>1 DEF At, Buying
      <4> QED
        BY <4>1
    <3>4. S \in SUBSET Calls
      OBVIOUS
    <3> HIDE DEF S
    <3> QED
      BY <3>1, <3>2, <3>3, <3>4, NoCycle
  <2>4. CASE pc[c] = "commit"
    <3>1. WaitsFor[c] = {}
      BY <2>4, WaitsForNobody
    <3> QED
      BY <3>1, NoCycle
  <2>5. pc[c] \in Fresh \/ Buying(c) \/ Starting(c) \/ pc[c] = "commit"
    BY DEF Shape, CallOK, PlaceOf, Fresh, Buying, Starting
  <2> QED
    BY <2>1, <2>2, <2>3, <2>4, <2>5
<1> QED
  BY <1>1, PurchasesHold, PTL

-----------------------------------------------------------------------------
(* Who has closed what. *)

\* The row lock under which a session is closed.
CloseLock(x, m) == m.row = <<"session", x>> /\ m.mode \in {"for_update", "no_key_update"}

\* The sessions a call has closed stay open for the others until it commits, and
\* are no other's; calls that have answered count, and no others.
Closing ==
  /\ ended \subseteq SessionIds /\ IsFiniteSet(Counted) /\ ClosedOnce
  /\ \A c \in Calls : closed[c] \cap ended = {}
  /\ \A c \in Calls : \A x \in closed[c] : \E m \in held[c] : CloseLock(x, m)
  /\ \A c, d \in Calls : c # d => closed[c] \cap closed[d] = {}
  /\ \A c \in Calls : pc[c] # "done" => reply[c].count = 0

\* A step that neither closes a session nor counts one.
Keeps(c) ==
  /\ closed'[c] = {} \/ (closed'[c] = closed[c] /\ held[c] \subseteq held'[c])
  /\ reply'[c].count = 0 \/ reply'[c] = reply[c]

LEMMA AnswerKeeps ==
  ASSUME Functions, NEW c \in Calls, NEW kind, NEW zero, zero = 0, NEW s, Answer(c, kind, zero, s)
  PROVE  Keeps(c)
<1>1. closed'[c] = {} /\ reply'[c] = [kind |-> kind, count |-> zero, sub |-> s]
  BY DEF Answer, EndTransaction, Functions
<1> QED
  BY <1>1 DEF Keeps

LEMMA ReturnKeeps ==
  ASSUME Functions, NEW c \in Calls, NEW kind, NEW zero, zero = 0, NEW s, Return(c, kind, zero, s)
  PROVE  Keeps(c)
<1>1. CASE Answer(c, kind, zero, s)
  BY <1>1, AnswerKeeps
<1>2. CASE ~ Answer(c, kind, zero, s)
  BY <1>2 DEF Return, EndTransaction, Functions, Keeps
<1> QED
  BY <1>1, <1>2

LEMMA CommittedKeeps ==
  ASSUME Functions, NEW c \in Calls, NEW kind, NEW zero, zero = 0, NEW s, Committed(c, kind, zero, s)
  PROVE  Keeps(c)
<1>1. Return(c, kind, zero, s) \/ Answer(c, "unanswered", zero, None)
  BY DEF Committed
<1> QED
  BY <1>1, ReturnKeeps, AnswerKeeps

LEMMA RaiseKeeps ==
  ASSUME Functions, NEW c \in Calls, NEW kind, Raise(c, kind)
  PROVE  Keeps(c)
<1>1. PICK zero : zero = 0 /\ Answer(c, kind, zero, None)
  BY DEF Raise
<1> QED
  BY <1>1, AnswerKeeps

LEMMA StatementKeeps ==
  ASSUME Functions, NEW c \in Calls, NEW label, Statement(c, label)
  PROVE  Keeps(c)
BY DEF Statement, Take, Functions, Keeps

\* Only an end and a bulk close do.
LEMMA OthersKeep ==
  ASSUME Functions, NEW c \in Calls,
         SignUp(c) \/ Buy(c) \/ Watch(c) \/ Crash(c) \/ BulkDeadlocked(c)
  PROVE  Keeps(c) /\ ended' = ended
<1>0. PICK zero : zero = 0
  OBVIOUS
<1>1. ASSUME NEW kind, Raise(c, kind)
      PROVE  Keeps(c) /\ ended' = ended
  BY <1>1, RaiseKeeps DEF Raise, database
<1>2. ASSUME NEW label, Statement(c, label)
      PROVE  Keeps(c) /\ ended' = ended
  BY <1>2, StatementKeeps DEF Statement, database
<1>3. CASE SignUp(c)
  <2>1. CASE SeedEvent(c)
    <3>1. Committed(c, "seeded", zero, None) /\ ended' = ended
      BY <1>0, <2>1 DEF SeedEvent
    <3> QED
      BY <1>0, <3>1, CommittedKeeps
  <2>2. CASE RegisterCommit(c)
    <3>1. Committed(c, "registered", zero, None) /\ ended' = ended
      BY <1>0, <2>2 DEF RegisterCommit
    <3> QED
      BY <1>0, <3>1, CommittedKeeps
  <2> QED
    BY <1>1, <1>2, <1>3, <2>1, <2>2 DEF SignUp, RegisterInsert
<1>4. CASE Buy(c)
  <2>1. CASE PurchaseCheckKey(c)
    <3>1. CASE \E x : Return(c, "replayed", 0, x) /\ UNCHANGED database
      <4>1. PICK x : Return(c, "replayed", zero, x) /\ ended' = ended
        BY <1>0, <3>1 DEF database
      <4> QED
        BY <1>0, <4>1, ReturnKeeps
    <3> QED
      BY <1>1, <1>2, <2>1, <3>1 DEF PurchaseCheckKey
  <2>2. CASE PurchaseCommit(c)
    <3>1. Committed(c, "purchased", zero, c) /\ ended' = ended
      BY <1>0, <2>2 DEF PurchaseCommit
    <3> QED
      BY <1>0, <3>1, CommittedKeeps
  <2>3. CASE PurchaseInsertSub(c)
    <3>1. CASE Raise(c, "failed")
      BY <1>1, <3>1
    <3>2. CASE ~ Raise(c, "failed")
      <4>1. Take(c) /\ UNCHANGED <<database, closed, reply>>
        BY <2>3, <3>2 DEF PurchaseInsertSub
      <4> QED
        BY <4>1 DEF Take, Keeps, Functions, database
    <3> QED
      BY <3>1, <3>2
  <2> QED
    BY <1>1, <1>2, <1>4, <2>1, <2>2, <2>3 DEF Buy, PurchaseLockUser, PurchaseCheckActive,
       PurchaseInsertPayment
<1>5. CASE Watch(c)
  <2>1. CASE StartLockSub(c)
    <3>1. CASE Raise(c, "rejected")
      BY <1>1, <3>1
    <3>2. CASE ~ Raise(c, "rejected")
      <4>1. Take(c) /\ UNCHANGED <<database, closed, reply>>
        BY <2>1, <3>2 DEF StartLockSub
      <4> QED
        BY <4>1 DEF Take, Keeps, Functions, database
    <3> QED
      BY <3>1, <3>2
  <2>2. CASE StartCommit(c)
    <3>1. Committed(c, "started", zero, sub[c].id) /\ ended' = ended
      BY <1>0, <2>2 DEF StartCommit
    <3> QED
      BY <1>0, <3>1, CommittedKeeps
  <2> QED
    BY <1>1, <1>2, <1>5, <2>1, <2>2 DEF Watch, StartReadEvent, StartCount, StartInsertSession
<1>6. CASE Crash(c) \/ BulkDeadlocked(c)
  BY <1>1, <1>6 DEF Crash, BulkDeadlocked
<1> QED
  BY <1>3, <1>4, <1>5, <1>6

\* The count stays what it is while nobody counts anew.
LEMMA CountedSame ==
  ASSUME \A c \in Calls : reply'[c].count = reply[c].count
  PROVE  Counted' = Counted
<1>1. \A p \in Calls \X (1 .. Cardinality(SessionIds)) : reply'[p[1]].count = reply[p[1]].count
  OBVIOUS
<1> QED
  BY <1>1 DEF Counted

LEMMA ClosingFrame ==
  ASSUME Shape, Closing, NEW c \in Calls, OnlyCall(c), pc[c] # "done", Keeps(c), ended' = ended
  PROVE  Closing'
<1>1. reply[c].kind = "none" /\ reply[c].count = 0
  BY DEF Shape, CallOK, Closing
<1>2. \A d \in Calls : reply'[d].count = reply[d].count
  BY <1>1 DEF OnlyCall, Keeps
<1>3. Counted' = Counted
  BY <1>2, CountedSame
<1>4. (\A d \in Calls : reply'[d].kind # "unanswered") =>
        (\A d \in Calls : reply[d].kind # "unanswered")
  BY <1>1 DEF OnlyCall
<1>5. ClosedOnce'
  BY <1>3, <1>4 DEF Closing, ClosedOnce
<1>6. \A d \in Calls : closed'[d] \subseteq closed[d] /\ (closed'[d] # {} => held[d] \subseteq held'[d])
  BY DEF OnlyCall, Keeps
<1>7. ASSUME NEW d \in Calls, NEW x \in closed'[d]
      PROVE  \E m \in held'[d] : CloseLock(x, m)
  BY <1>6, <1>7 DEF Closing
<1>8. \A d \in Calls : pc'[d] # "done" => reply'[d].count = 0
  BY <1>1, <1>2 DEF OnlyCall, Closing
<1>9. \A d, e \in Calls : d # e => closed'[d] \cap closed'[e] = {}
  BY <1>6 DEF Closing
<1>10. \A d \in Calls : closed'[d] \cap ended' = {}
  BY <1>6 DEF Closing
<1> QED
  BY <1>3, <1>5, <1>7, <1>8, <1>9, <1>10 DEF Closing, CloseLock

\* A session is closed under its lock, when nobody else has it locked.
LEMMA ClosingTakes ==
  ASSUME Shape, Closing, NEW c \in Calls, OnlyCall(c), pc[c] # "done",
         NEW x, NEW l, CloseLock(x, l), Holders(held, c, {l}) = {},
         held'[c] = held[c] \cup {l}, closed'[c] \subseteq closed[c] \cup ({x} \ ended),
         reply' = reply, ended' = ended
  PROVE  Closing'
<1>1. \A d \in Calls \ {c} : closed'[d] = closed[d] /\ held'[d] = held[d] /\ pc'[d] = pc[d]
  BY DEF OnlyCall
<1>2. ASSUME NEW d \in Calls \ {c}, x \in closed[d]
      PROVE  FALSE
  <2>1. PICK m \in held[d] : CloseLock(x, m)
    BY <1>2 DEF Closing
  <2>2. Conflict(l, m)
    BY <2>1 DEF CloseLock, Conflict
  <2>3. d \in Holders(held, c, {l})
    BY <2>1, <2>2 DEF Holders, Shape, Functions
  <2> QED
    BY <2>3
<1>3. \A d \in Calls : reply'[d].count = reply[d].count
  OBVIOUS
<1>4. Counted' = Counted /\ ClosedOnce'
  BY <1>3, CountedSame DEF Closing, ClosedOnce
<1>5. ASSUME NEW d \in Calls, NEW y \in closed'[d]
      PROVE  \E m \in held'[d] : CloseLock(y, m)
  <2>1. CASE d = c /\ y = x
    BY <2>1
  <2>2. CASE ~ (d = c /\ y = x)
    <3>1. y \in closed[d] /\ held[d] \subseteq held'[d]
      BY <1>1, <1>5, <2>2
    <3> QED
      BY <3>1 DEF Closing
  <2> QED
    BY <2>1, <2>2
<1>6. \A d \in Calls : closed'[d] \cap ended' = {}
  BY <1>1 DEF Closing
<1>7. \A d, e \in Calls : d # e => closed'[d] \cap closed'[e] = {}
  BY <1>1, <1>2 DEF Closing
<1>8. \A d \in Calls : pc'[d] # "done" => reply'[d].count = 0
  BY <1>1 DEF Closing
<1> QED
  BY <1>4, <1>5, <1>6, <1>7, <1>8 DEF Closing, CloseLock

\* What a call answers is counted next to what the others have.
LEMMA CountedGrows ==
  ASSUME Closing, NEW c \in Calls, reply[c].count = 0, NEW n \in 0 .. Cardinality(SessionIds),
         reply'[c].count = n, \A d \in Calls \ {c} : reply'[d].count = reply[d].count
  PROVE  IsFiniteSet(Counted') /\ Cardinality(Counted') = Cardinality(Counted) + n
<1> DEFINE new == {c} \X (1 .. n)
<1>0. Cardinality(SessionIds) \in Nat /\ n \in Nat
  BY SeatsAssumption, FS_CardinalityType
<1>1. IsFiniteSet(new) /\ Cardinality(new) = n
  <2>1. IsFiniteSet({c}) /\ Cardinality({c}) = 1
    BY FS_Singleton
  <2>2. IsFiniteSet(1 .. n) /\ Cardinality(1 .. n) = n
    BY <1>0, FS_Interval
  <2> QED
    BY <1>0, <2>1, <2>2, FS_Product
<1>2. Counted' = Counted \cup new
  <2>1. ASSUME NEW p \in Calls \X (1 .. Cardinality(SessionIds))
        PROVE  p \in Counted' <=> p \in Counted \cup new
    <3>1. PICK d \in Calls, i \in 1 .. Cardinality(SessionIds) : p = <<d, i>>
      OBVIOUS
    <3>2. (p \in Counted' <=> i <= reply'[d].count) /\ (p \in Counted <=> i <= reply[d].count)
      BY <3>1 DEF Counted
    <3>3. p \in new <=> d = c /\ i <= n
      BY <1>0, <3>1
    <3>4. CASE d = c
      <4>1. i <= reply'[d].count <=> i <= n
        BY <3>4
      <4>2. ~ (i <= reply[d].count)
        BY <1>0, <3>4
      <4> QED
        BY <3>2, <3>3, <3>4, <4>1, <4>2
    <3>5. CASE d # c
      BY <3>2, <3>3, <3>5
    <3> QED
      BY <3>4, <3>5
  <2>2. new \subseteq Calls \X (1 .. Cardinality(SessionIds))
    BY <1>0
  <2> QED
    BY <2>1, <2>2 DEF Counted
<1>3. Counted \cap new = {}
  <2>1. ASSUME NEW p \in new, p \in Counted
        PROVE  FALSE
    <3>1. PICK i \in 1 .. n : p = <<c, i>>
      OBVIOUS
    <3>2. i <= reply[c].count /\ i >= 1
      BY <1>0, <2>1, <3>1 DEF Counted
    <3> QED
      BY <1>0, <3>2
  <2> QED
    BY <2>1
<1> HIDE DEF new
<1>4. IsFiniteSet(Counted \cup new)
      /\ Cardinality(Counted \cup new) = Cardinality(Counted) + Cardinality(new) - Cardinality({})
  BY <1>1, <1>3, FS_Union DEF Closing
<1>5. Cardinality(Counted) \in Nat
  BY FS_CardinalityType DEF Closing
<1> QED
  BY <1>0, <1>1, <1>2, <1>4, <1>5, FS_EmptySet

LEMMA CloseCommitClosing ==
  ASSUME Shape, Closing, NEW c \in Calls, CloseCommit(c)
  PROVE  Closing'
<1> DEFINE n == Cardinality(closed[c])
<1>1. /\ pc[c] = "commit" /\ req[c].op \in {"end", "bulk"} /\ ended' = ended \cup closed[c]
      /\ Committed(c, "closed", n, None)
  BY DEF CloseCommit
<1>2. closed[c] \subseteq SessionIds /\ reply[c].kind = "none" /\ reply[c].count = 0
  BY <1>1 DEF Shape, Functions, CallOK, Closing
<1>3. /\ IsFiniteSet(closed[c]) /\ IsFiniteSet(ended) /\ n \in 0 .. Cardinality(SessionIds)
      /\ Cardinality(ended) \in Nat
  BY <1>2, SeatsAssumption, FS_Subset, FS_CardinalityType DEF Closing
<1> HIDE DEF n
<1>4. CountAndSub(n, None)
  BY <1>3 DEF CountAndSub
<1>5. /\ Settled(c)
      /\ pc'[c] = "done" =>
           reply'[c] = [kind |-> "closed", count |-> n, sub |-> None] \/ reply'[c] = Unanswered
  BY <1>1, <1>4, CommittedSettles
<1>6. pc'[c] = "done" /\ OnlyCall(c) /\ closed'[c] = {}
  <2>1. Rank(req[c]) = 3
    BY <1>1 DEF Rank
  <2> QED
    BY <1>5, <2>1, RankBound DEF Settled
<1>7. \A d \in Calls \ {c} : /\ closed'[d] = closed[d] /\ held'[d] = held[d] /\ pc'[d] = pc[d]
                             /\ reply'[d] = reply[d]
  BY <1>6 DEF OnlyCall
<1>8. IsFiniteSet(Counted') /\ ClosedOnce'
  <2>1. CASE reply'[c] = Unanswered
    <3>1. reply'[c].kind = "unanswered" /\ reply'[c].count = 0
      BY <2>1 DEF Unanswered
    <3>2. Counted' = Counted
      BY <1>2, <1>7, <3>1, CountedSame
    <3> QED
      BY <3>1, <3>2 DEF Closing, ClosedOnce
  <2>2. CASE reply'[c] = [kind |-> "closed", count |-> n, sub |-> None]
    <3>1. reply'[c].count = n
      BY <2>2
    <3>2. IsFiniteSet(Counted') /\ Cardinality(Counted') = Cardinality(Counted) + n
      BY <1>2, <1>3, <1>7, <3>1, CountedGrows
    <3>3. Cardinality(ended') = Cardinality(ended) + n
      <4>1. ended \cap closed[c] = {}
        BY DEF Closing
      <4>2. Cardinality(ended \cup closed[c])
              = Cardinality(ended) + Cardinality(closed[c]) - Cardinality({})
        BY <1>3, <4>1, FS_Union
      <4>3. n \in Int /\ n = Cardinality(closed[c])
        BY <1>3 DEF n
      <4> QED
        BY <1>1, <1>3, <4>2, <4>3, FS_EmptySet
    <3>4. (\A d \in Calls : reply'[d].kind # "unanswered") =>
            (\A d \in Calls : reply[d].kind # "unanswered")
      BY <1>2, <1>7
    <3> QED
      BY <3>2, <3>3, <3>4 DEF Closing, ClosedOnce
  <2> QED
    BY <1>5, <1>6, <2>1, <2>2
<1>9. \A d \in Calls : closed'[d] \cap ended' = {}
  BY <1>1, <1>6, <1>7 DEF Closing
<1>10. \A d \in Calls : \A x \in closed'[d] : \E m \in held'[d] : CloseLock(x, m)
  BY <1>6, <1>7 DEF Closing
<1>11. \A d, e \in Calls : d # e => closed'[d] \cap closed'[e] = {}
  BY <1>6, <1>7 DEF Closing
<1>12. \A d \in Calls : pc'[d] # "done" => reply'[d].count = 0
  BY <1>6, <1>7 DEF Closing
<1>13. ended' \subseteq SessionIds
  BY <1>1, <1>2 DEF Closing
<1> QED
  BY <1>8, <1>9, <1>10, <1>11, <1>12, <1>13 DEF Closing, CloseLock

LEMMA LeaveClosing ==
  ASSUME Shape, Closing, NEW c \in Calls, Leave(c)
  PROVE  Closing'
<1>0. Functions
  BY DEF Shape
<1>1. (CloseCommit(c) \/ (OnlyCall(c) /\ pc[c] # "done"))
  BY LeaveShape DEF Plain, Settled, Working, Moved
<1>2. CASE CloseCommit(c)
  BY <1>2, CloseCommitClosing
<1>3. CASE ~ CloseCommit(c) /\ EndLockSession(c)
  <2>1. CASE Return(c, "ended", 0, None) /\ UNCHANGED database
    <3>1. PICK zero : zero = 0
      OBVIOUS
    <3>2. Return(c, "ended", zero, None) /\ ended' = ended
      BY <2>1, <3>1 DEF database
    <3> QED
      BY <1>0, <1>1, <1>3, <3>1, <3>2, ReturnKeeps, ClosingFrame
  <2>2. CASE ~ (Return(c, "ended", 0, None) /\ UNCHANGED database)
    <3> DEFINE x == req[c].session
               l == [row |-> <<"session", x>>, mode |-> "for_update"]
    <3>1. /\ \E y \in sessions : y.id = x /\ y.id \notin ended
          /\ held' = [held EXCEPT ![c] = @ \cup Wanted(c)] /\ Granted(c)
          /\ closed' = [closed EXCEPT ![c] = {x}] /\ At(c, "end", "lock")
          /\ UNCHANGED <<database, reply>>
      BY <1>3, <2>2 DEF EndLockSession, Take
    <3>2. Wanted(c) = {l}
      <4>1. Wanted(c) = ForUpdate("session", {y.id : y \in sessions} \cap {x})
        BY <3>1 DEF Wanted, At
      <4>2. {y.id : y \in sessions} \cap {x} = {x}
        BY <3>1
      <4> QED
        BY <4>1, <4>2 DEF ForUpdate
    <3>3. CloseLock(x, l)
      BY DEF CloseLock
    <3>4. /\ held'[c] = held[c] \cup {l} /\ closed'[c] \subseteq closed[c] \cup ({x} \ ended)
          /\ Holders(held, c, {l}) = {} /\ reply' = reply /\ ended' = ended
      BY <1>0, <3>1, <3>2 DEF Functions, Granted, database
    <3> HIDE DEF x, l
    <3> QED
      BY <1>1, <1>3, <3>3, <3>4, ClosingTakes
  <2> QED
    BY <2>1, <2>2
<1>4. CASE ~ CloseCommit(c) /\ BulkMatch(c)
  <2>1. UNCHANGED <<database, held, closed, reply>>
    BY <1>4 DEF BulkMatch
  <2>2. Keeps(c) /\ ended' = ended
    BY <2>1 DEF Keeps, database
  <2> QED
    BY <1>1, <1>4, <2>2, ClosingFrame
<1>5. ASSUME NEW x \in rows[c], BulkClose(c, x), ~ CloseCommit(c)
      PROVE  Closing'
  <2> DEFINE l == [row |-> <<"session", x>>, mode |-> "no_key_update"]
  <2>1. NoKeyUpdate("session", {x}) = {l} /\ CloseLock(x, l)
    BY DEF NoKeyUpdate, CloseLock
  <2> HIDE DEF l
  <2>2. /\ held'[c] = held[c] \cup {l} /\ closed'[c] \subseteq closed[c] \cup ({x} \ ended)
        /\ Holders(held, c, {l}) = {} /\ reply' = reply /\ ended' = ended
    BY <1>0, <1>5, <2>1 DEF BulkClose, Functions, database
  <2> QED
    BY <1>1, <1>5, <2>1, <2>2, ClosingTakes
<1> QED
  BY <1>2, <1>3, <1>4, <1>5 DEF Leave

LEMMA ClosingInit == Init => Closing
<1> SUFFICES ASSUME Init
             PROVE  Closing
  OBVIOUS
<1>1. PICK zero : zero = 0
  OBVIOUS
<1>2. ASSUME NEW c \in Calls
      PROVE  reply[c].count = zero
  BY <1>1, <1>2 DEF Init
<1>3. Counted = {}
  BY <1>1, <1>2 DEF Counted
<1>4. IsFiniteSet(Counted) /\ Cardinality(Counted) = Cardinality(ended)
  BY <1>3, FS_EmptySet DEF Init
<1> QED
  BY <1>1, <1>2, <1>4 DEF Init, Closing, ClosedOnce

LEMMA ClosingNext == Shape /\ Closing /\ [Next]_vars => Closing'
<1> SUFFICES ASSUME Shape, Closing, [Next]_vars
             PROVE  Closing'
  OBVIOUS
<1>0. Functions
  BY DEF Shape
<1>1. ASSUME NEW c \in Calls, NEW s \in Requests, Start(c, s)
      PROVE  Closing'
  <2>1. OnlyCall(c) /\ pc[c] # "done" /\ ended' = ended /\ Keeps(c)
    BY <1>1, StartShape DEF Start, work, database, Keeps
  <2> QED
    BY <2>1, ClosingFrame
<1>2. ASSUME NEW c \in Calls,
             SignUp(c) \/ Buy(c) \/ Watch(c) \/ Crash(c) \/ BulkDeadlocked(c)
      PROVE  Closing'
  <2>1. OnlyCall(c) /\ pc[c] # "done"
    BY <1>2, SignUpShape, BuyShape, WatchShape, FailShape
       DEF Plain, Settled, Working, Moved
  <2> QED
    BY <1>0, <1>2, <2>1, OthersKeep, ClosingFrame
<1>3. ASSUME CallsRest
      PROVE  Closing'
  <2>1. UNCHANGED <<ended, closed, held, pc, reply>>
    BY <1>3 DEF CallsRest, work
  <2> QED
    BY <2>1, CountedSame DEF Closing, ClosedOnce, CloseLock
<1> QED
  BY <1>1, <1>2, <1>3, NextIs, NobodysSteps, LeaveClosing

\* However calls that close a session overlap: what they are told adds up to the
\* sessions that have ended, as long as no answer got lost.
THEOREM EverySessionClosedOnce == Spec => []ClosedOnce
<1>1. Shape /\ Closing /\ [Next]_vars => (Shape /\ Closing)'
  BY ShapeNext, ClosingNext
<1>2. Closing => ClosedOnce
  BY DEF Closing
<1> QED
  BY <1>1, <1>2, ShapeInit, ClosingInit, PTL DEF Spec
=============================================================================
