---------------------------- MODULE BettingOrder ----------------------------
(***************************************************************************)
(* What the callers of Betting are told, and in which order its            *)
(* transactions lock: nobody is charged, settled or cancelled twice, and   *)
(* no cycle of waiting calls goes through markets and keys alone.          *)
(***************************************************************************)
EXTENDS BettingProofs

-----------------------------------------------------------------------------
(* What a call answers. *)

CallMoves(d) == \/ \E r \in Requests : Start(d, r)
                \/ Step(d) \/ Fail(d) \/ Deadlocked(d) \/ DeadlockedOutside(d)

Failures == {"none", "rejected", "error", "already"}

\* How the answer of a call comes about.
Answering(d) ==
  /\ \A c \in Calls \ {d} : reply'[c] = reply[c] /\ req'[c] = req[c] /\ pc'[c] = pc[c]
  /\ reply'[d] # reply[d] =>
       /\ pc'[d] = "done"
       /\ \/ reply'[d].kind \in Failures
          \/ PlaceCommit(d) /\ reply'[d] = [kind |-> "placed", bet |-> d] /\ req' = req
          \/ /\ reply'[d].kind = "replayed" /\ req' = req
             /\ \E p \in payments : p.key = req[d].key /\ p.bet = reply'[d].bet
          \/ SettleCommit(d) /\ reply'[d].kind = "settled" /\ req' = req
          \/ CancelCommit(d) /\ reply'[d].kind = "cancelled" /\ req' = req

\* Nobody has an answer before the end, and an answer stands in the tables.
AnswerOK(c) ==
  /\ pc[c] # "done" => reply[c] = Silence
  /\ reply[c].kind = "placed" =>
       reply[c].bet = c /\ bets[c] # None /\ Charge(c, bets[c], req[c].key) \in payments
  /\ reply[c].kind = "replayed" =>
       \E p \in payments : p.key = req[c].key /\ p.bet = reply[c].bet
  /\ reply[c].kind = "settled" => outcomeStatus[req[c].outcome] # "open"
                                  /\ req[c].op = "settle" /\ req[c].outcome \in Outcomes
  /\ reply[c].kind = "cancelled" => eventStatus[req[c].event] = "cancelled"
                                    /\ req[c].op = "cancel" /\ req[c].event \in Events

AnswerInv ==
  /\ Inv /\ W!OnePaymentPerKey
  /\ \A c \in Calls : AnswerOK(c)
  /\ DoneOnce

LEMMA ReturnAnswers ==
  ASSUME TypeOK, NEW d \in Calls, NEW kind \in Failures, Return(d, kind)
  PROVE  Answering(d)
BY DEF Return, Answer, Answering, TypeOK

LEMMA StatementAnswers ==
  ASSUME TypeOK, NEW d \in Calls, NEW label, Statement(d, label), AnswerOK(d), pc[d] # "done"
  PROVE  Answering(d)
BY DEF Statement, Answering, AnswerOK, TypeOK

LEMMA MovesAnswer ==
  ASSUME Inv, NEW d \in Calls, CallMoves(d), AnswerOK(d)
  PROVE  Answering(d)
<1>0. TypeOK
  BY InvParts
<1>1. {"rejected", "error", "already"} \subseteq Failures
  BY DEF Failures
<1>2. ASSUME NEW r \in Requests, Start(d, r)
      PROVE  Answering(d)
  BY <1>0, <1>1, <1>2 DEF Start, Answering, AnswerOK, TypeOK
<1>3. CASE Fail(d)
  BY <1>0, <1>1, <1>3, ReturnAnswers DEF Fail
<1>4. CASE Deadlocked(d) \/ DeadlockedOutside(d)
  <2>0. pc[d] \notin {"idle", "done"} /\ RunAgain(d)
    BY <1>4, DeadlockedIsActive
  <2>1. CASE Return(d, "error")
    BY <1>0, <1>1, <2>1, ReturnAnswers
  <2>2. CASE ~ Return(d, "error")
    BY <1>0, <2>0, <2>2, InvParts DEF RunAgain, Answering, AnswerOK, TypeOK
  <2> QED
    BY <2>1, <2>2
<1>5. CASE Place(d)
  <2>0. pc[d] # "done"
    BY <1>5 DEF Place, PlaceLockUser, PlaceCheckKey, PlaceLockOutcome, PlaceLockEvent,
       PlaceReadPrice, PlaceCheckSession, PlaceInsertBet, PlaceInsertPayment, PlaceCommit, At
  <2>1. CASE PlaceCheckKey(d)
    <3>1. CASE Proceed(d, "outcome")
      BY <1>0, <2>0, <3>1, StatementAnswers DEF Proceed
    <3>2. CASE ~ Proceed(d, "outcome")
      <4>1. PICK p \in payments : p.key = req[d].key /\ Answer(d, "replayed", p.bet)
        BY <2>1, <3>2 DEF PlaceCheckKey
      <4> QED
        BY <1>0, <4>1 DEF Answer, Answering, TypeOK
    <3> QED
      BY <3>1, <3>2
  <2>2. CASE PlaceCommit(d)
    BY <1>0, <1>1, <2>2 DEF PlaceCommit, Committed, Answer, Answering, TypeOK
  <2>3. CASE ~ PlaceCheckKey(d) /\ ~ PlaceCommit(d)
    <3>1. (\E label : Statement(d, label)) \/ Return(d, "rejected") \/ Return(d, "error")
      BY <1>5, <2>3 DEF Place, PlaceLockUser, PlaceLockOutcome, PlaceLockEvent, PlaceReadPrice,
         PlaceCheckSession, PlaceInsertBet, PlaceInsertPayment, InsertPayments, Proceed, Reject
    <3> QED
      BY <1>0, <1>1, <2>0, <3>1, StatementAnswers, ReturnAnswers
  <2> QED
    BY <2>1, <2>2, <2>3
<1>6. CASE Settle(d)
  <2>0. pc[d] # "done"
    BY <1>6 DEF Settle, SettleLockOutcome, SettleLockEvent, SettleLockBets,
       SettleInsertPayouts, SettleReferPayouts, SettleCommit, At
  <2>1. CASE SettleCommit(d)
    BY <1>0, <1>1, <2>1 DEF SettleCommit, Committed, Answer, Answering, TypeOK
  <2>2. CASE ~ SettleCommit(d)
    <3>1. (\E label : Statement(d, label))
          \/ Return(d, "rejected") \/ Return(d, "error") \/ Return(d, "already")
      BY <1>6, <2>2 DEF Settle, SettleLockOutcome, SettleLockEvent, SettleLockBets,
         SettleInsertPayouts, SettleReferPayouts, InsertPayments, Proceed, Reject
    <3> QED
      BY <1>0, <1>1, <2>0, <3>1, StatementAnswers, ReturnAnswers
  <2> QED
    BY <2>1, <2>2
<1>7. CASE Cancel(d)
  <2>0. pc[d] # "done"
    BY <1>7 DEF Cancel, CancelLockOutcome, CancelLockEvent, CancelLockBets,
       CancelInsertRefunds, CancelReferRefunds, CancelCommit, At
  <2>1. CASE CancelCommit(d)
    BY <1>0, <1>1, <2>1 DEF CancelCommit, Committed, Answer, Answering, TypeOK
  <2>2. CASE ~ CancelCommit(d)
    <3>1. (\E label : Statement(d, label))
          \/ Return(d, "rejected") \/ Return(d, "error") \/ Return(d, "already")
      BY <1>7, <2>2 DEF Cancel, CancelLockOutcome, CancelLockEvent, CancelLockBets,
         CancelInsertRefunds, CancelReferRefunds, InsertPayments, Proceed, Reject
    <3> QED
      BY <1>0, <1>1, <2>0, <3>1, StatementAnswers, ReturnAnswers
  <2> QED
    BY <2>1, <2>2
<1> QED
  BY <1>2, <1>3, <1>4, <1>5, <1>6, <1>7 DEF CallMoves, Step

-----------------------------------------------------------------------------
(* What stays in the tables. *)

\* What a bet keeps for good: who placed it, at which price, with which stake.
Placed(bet) == <<bet.user, bet.snap, bet.stake>>

LEMMA TablesKeep ==
  ASSUME TypeOK, [W!Next]_W!tables
  PROVE  /\ payments \subseteq payments'
         /\ \A o \in Outcomes : outcomeStatus[o] # "open" => outcomeStatus'[o] # "open"
         /\ \A e \in Events : eventStatus[e] = "cancelled" => eventStatus'[e] = "cancelled"
         /\ \A b \in Calls : bets[b] # None =>
              bets'[b] # None /\ Placed(bets'[b]) = Placed(bets[b])
<1>0. /\ eventStatus \in [Events -> EventStatus] /\ outcomeStatus \in [Outcomes -> OutcomeStatus]
      /\ bets \in [Calls -> Bet \cup {None}]
  BY TableTypes
<1>1. ASSUME NEW d \in Calls, NEW bet \in W!NewBet, NEW k \in Keys, W!Place(d, bet, k)
      PROVE  /\ payments \subseteq payments' /\ UNCHANGED <<outcomeStatus, eventStatus>>
             /\ \A b \in Calls : bets[b] # None => bets'[b] = bets[b]
  <2>1. /\ bets[d] = None /\ bets' = [bets EXCEPT ![d] = bet]
        /\ UNCHANGED <<eventStatus, outcomeStatus>>
        /\ payments' = payments \cup {W!Charge(d, bet, k)}
    BY <1>1 DEF W!Place
  <2> QED
    BY <1>0, <2>1
<1>2. ASSUME NEW bs, NEW status \in BetStatus, bets' = W!Resolved(bs, status),
             NEW b \in Calls, bets[b] # None
      PROVE  bets'[b] # None /\ Placed(bets'[b]) = Placed(bets[b])
  <2>1. CASE b \in bs
    <3>1. bets'[b] = [bets[b] EXCEPT !.status = status] /\ bets[b] \in Bet
      BY <1>0, <1>2, <2>1 DEF W!Resolved
    <3>2. /\ bets'[b].user = bets[b].user /\ bets'[b].snap = bets[b].snap
          /\ bets'[b].stake = bets[b].stake /\ bets'[b] \in Bet
      BY <3>1 DEF Bet
    <3> QED
      BY <3>2, NullAssumption DEF Placed
  <2>2. CASE b \notin bs
    BY <1>2, <2>2 DEF W!Resolved
  <2> QED
    BY <2>1, <2>2
<1>4. "won" \in BetStatus /\ "lost" \in BetStatus /\ "voided" \in BetStatus
  BY DEF BetStatus
<1>5. ASSUME NEW o \in Outcomes, NEW won \in BOOLEAN, W!Settle(o, won)
      PROVE  /\ payments \subseteq payments' /\ UNCHANGED eventStatus
             /\ \A x \in Outcomes : outcomeStatus[x] # "open" => outcomeStatus'[x] # "open"
             /\ \A b \in Calls : bets[b] # None =>
                  bets'[b] # None /\ Placed(bets'[b]) = Placed(bets[b])
  <2> DEFINE due == W!PendingOn(bets, {o})
             pays == IF won THEN {W!PayoutOf(b, bets[b]) : b \in due} ELSE {}
             result == IF won THEN "won" ELSE "lost"
  <2>1. /\ outcomeStatus' = [outcomeStatus EXCEPT ![o] = result]
        /\ bets' = W!Resolved(due, result)
        /\ payments' = payments \cup pays
        /\ UNCHANGED eventStatus
    BY <1>5 DEF W!Settle
  <2>3. result \in BetStatus /\ result # "open"
    BY <1>4
  <2>4. \A b \in Calls : bets[b] # None => bets'[b] # None /\ Placed(bets'[b]) = Placed(bets[b])
    BY <1>2, <2>1, <2>3
  <2> HIDE DEF due, pays, result
  <2> QED
    BY <1>0, <2>1, <2>3, <2>4
<1>6. ASSUME NEW e \in Events, W!Cancel(e)
      PROVE  /\ payments \subseteq payments' /\ UNCHANGED outcomeStatus
             /\ \A x \in Events : eventStatus[x] = "cancelled" => eventStatus'[x] = "cancelled"
             /\ \A b \in Calls : bets[b] # None =>
                  bets'[b] # None /\ Placed(bets'[b]) = Placed(bets[b])
  BY <1>0, <1>2, <1>4, <1>6 DEF W!Cancel
<1>7. ASSUME NEW arrived, W!Feed(arrived)
      PROVE  UNCHANGED <<eventStatus, outcomeStatus, bets, payments>>
  BY <1>7 DEF W!Feed
<1>8. ASSUME NEW e \in Events, W!Advance(e)
      PROVE  /\ UNCHANGED <<outcomeStatus, bets, payments>>
             /\ \A x \in Events : eventStatus[x] = "cancelled" => eventStatus'[x] = "cancelled"
  BY <1>0, <1>8 DEF W!Advance
<1>11. ASSUME NEW u, NEW k, W!Buy(u, k)
      PROVE  UNCHANGED <<eventStatus, outcomeStatus, bets>> /\ payments \subseteq payments'
  BY <1>11 DEF W!Buy
<1>9. CASE UNCHANGED W!tables
  BY <1>9 DEF W!tables
<1>10. CASE W!Next
  <2>1. \/ \E d \in Calls, bet \in W!NewBet, k \in Keys : W!Place(d, bet, k)
        \/ \E o \in Outcomes, won \in BOOLEAN : W!Settle(o, won)
        \/ \E e \in Events : W!Cancel(e)
        \/ \E e \in Events : W!Advance(e)
        \/ \E u, k : W!Buy(u, k)
        \/ \E arrived : W!Feed(arrived)
    BY <1>10 DEF W!Next
  <2> QED
    BY <2>1, <1>1, <1>5, <1>6, <1>7, <1>8, <1>11
<1> QED
  BY <1>9, <1>10

LEMMA MovesActive ==
  ASSUME Inv, NEW d \in Calls, CallMoves(d)
  PROVE  pc[d] # "done"
<1>1. CASE Deadlocked(d) \/ DeadlockedOutside(d)
  BY <1>1, DeadlockedIsActive
<1>2. CASE ~ (Deadlocked(d) \/ DeadlockedOutside(d))
  BY <1>2 DEF CallMoves, Start, Fail, Active, Step, At,
     Place, PlaceLockUser, PlaceCheckKey, PlaceLockOutcome, PlaceLockEvent, PlaceReadPrice,
     PlaceCheckSession, PlaceInsertBet, PlaceInsertPayment, PlaceCommit,
     Settle, SettleLockOutcome, SettleLockEvent, SettleLockBets, SettleInsertPayouts,
     SettleReferPayouts, SettleCommit,
     Cancel, CancelLockOutcome, CancelLockEvent, CancelLockBets,
     CancelInsertRefunds, CancelReferRefunds, CancelCommit
<1> QED
  BY <1>1, <1>2

\* An answer that stands goes on standing.
LEMMA AnswerStands ==
  ASSUME Inv, [W!Next]_W!tables, NEW c \in Calls, AnswerOK(c),
         reply'[c] = reply[c], req'[c] = req[c], pc'[c] # "done" => pc[c] # "done"
  PROVE  AnswerOK(c)'
<1>1. TypeOK /\ payments \subseteq payments'
  BY InvParts, TablesKeep
<1>2. ASSUME reply'[c].kind = "placed"
      PROVE  /\ reply'[c].bet = c /\ bets'[c] # None
             /\ Charge(c, bets'[c], req[c].key) \in payments'
  <2>1. /\ reply[c].bet = c /\ bets[c] # None
        /\ Charge(c, bets[c], req[c].key) \in payments
    BY <1>2 DEF AnswerOK
  <2>2. bets'[c] # None /\ Placed(bets'[c]) = Placed(bets[c])
    BY <1>1, <2>1, TablesKeep
  <2>3. Charge(c, bets'[c], req[c].key) = Charge(c, bets[c], req[c].key)
    BY <2>2 DEF Placed, Charge
  <2> QED
    BY <1>1, <2>1, <2>2, <2>3
<1> QED
  BY <1>1, <1>2, TablesKeep DEF AnswerOK

\* What place_bet inserts into bets is a row.
LEMMA PlacedIsBet ==
  ASSUME Inv, NEW d \in Calls, PlaceCommit(d)
  PROVE  NewBet(d) # None
<1>1. /\ TypeOK /\ PlaceCurrent(d) /\ req[d] \in Requests
      /\ pc[d] = "commit" /\ req[d].op = "place"
  BY InvParts DEF PlaceCommit, At, Current, TypeOK
<1>2. /\ req[d].user \in Users /\ snap[d] \in Snapshot
      /\ Quantized(req[d].stake) > 0 /\ Quantized(req[d].stake) <= MaxMoney
  BY <1>1, TableTypes DEF PlaceCurrent, IsNewest
<1>3. Quantized(req[d].stake) \in Int /\ req[d].session \in Sessions \cup {None}
  BY <1>1, RequestTypes, QuantizedIsInt
<1>4. NewBet(d) \in Bet
  BY <1>2, <1>3, TablesAssumption DEF NewBet, Bet, BetStatus
<1> QED
  BY <1>4, NullAssumption

\* A new answer stands in the tables of its commit.
LEMMA AnswerComes ==
  ASSUME Inv, [W!Next]_W!tables, NEW d \in Calls, Answering(d), reply'[d] # reply[d]
  PROVE  AnswerOK(d)'
<1>0. TypeOK /\ Current(d) /\ pc'[d] = "done"
  BY InvParts DEF Answering
<1>1. CASE reply'[d].kind \in Failures
  BY <1>0, <1>1 DEF AnswerOK, Failures
<1>2. CASE PlaceCommit(d) /\ reply'[d] = [kind |-> "placed", bet |-> d] /\ req' = req
  <2>1. /\ Charge(d, NewBet(d), req[d].key) \in payments'
        /\ bets' = [bets EXCEPT ![d] = NewBet(d)]
    BY <1>2 DEF PlaceCommit, PaymentsOf, At
  <2>2. bets'[d] = NewBet(d)
    BY <1>0, <2>1, TableTypes
  <2>3. bets'[d] # None
    BY <1>2, <2>2, PlacedIsBet
  <2> QED
    BY <1>0, <1>2, <2>1, <2>2, <2>3 DEF AnswerOK
<1>3. CASE /\ reply'[d].kind = "replayed" /\ req' = req
           /\ \E p \in payments : p.key = req[d].key /\ p.bet = reply'[d].bet
  BY <1>0, <1>3, TablesKeep DEF AnswerOK
<1>4. CASE SettleCommit(d) /\ reply'[d].kind = "settled" /\ req' = req
  <2>1. req[d].op = "settle" /\ req[d].outcome \in Outcomes
    BY <1>0, <1>4 DEF SettleCommit, Current, SettleCurrent, At
  <2>2. outcomeStatus'[req[d].outcome] # "open"
    BY <1>0, <1>4, <2>1, TableTypes DEF SettleCommit
  <2> QED
    BY <1>0, <1>4, <2>1, <2>2 DEF AnswerOK
<1>5. CASE CancelCommit(d) /\ reply'[d].kind = "cancelled" /\ req' = req
  <2>1. req[d].op = "cancel" /\ req[d].event \in Events
    BY <1>0, <1>5 DEF CancelCommit, Current, CancelCurrent, At
  <2>2. eventStatus'[req[d].event] = "cancelled"
    BY <1>0, <1>5, <2>1, TableTypes DEF CancelCommit
  <2> QED
    BY <1>0, <1>5, <2>1, <2>2 DEF AnswerOK
<1> QED
  BY <1>1, <1>2, <1>3, <1>4, <1>5 DEF Answering

\* Who settles an outcome or cancels an event is the first to be told so.
LEMMA AnswersOnce ==
  ASSUME Inv, DoneOnce, NEW d \in Calls, Answering(d), reply[d] = Silence,
         \A c \in Calls : AnswerOK(c)
  PROVE  DoneOnce'
<1>0. TypeOK /\ Current(d)
  BY InvParts
<1> DEFINE finished(c) == reply'[c].kind \in {"settled", "cancelled"}
<1>1. ASSUME NEW c \in Calls \ {d}, finished(c), finished(d), reply'[d].kind = reply'[c].kind
      PROVE  MarketsOf(c)' \cap MarketsOf(d)' = {}
  <2>1. /\ reply[c].kind = reply'[c].kind /\ req'[c] = req[c]
        /\ reply'[d] # reply[d] /\ reply'[d].kind \notin Failures
    BY <1>1 DEF Answering, Silence, Failures
  <2>2. CASE SettleCommit(d) /\ reply'[d].kind = "settled" /\ req' = req
    <3>1. outcomeStatus[req[d].outcome] = "open" /\ req[d].op = "settle"
      BY <1>0, <2>2 DEF SettleCommit, Current, SettleCurrent, At
    <3>2. outcomeStatus[req[c].outcome] # "open" /\ req[c].op = "settle"
      BY <1>1, <2>1, <2>2 DEF AnswerOK
    <3> QED
      BY <2>2, <3>1, <3>2 DEF MarketsOf
  <2>3. CASE CancelCommit(d) /\ reply'[d].kind = "cancelled" /\ req' = req
    <3>1. eventStatus[req[d].event] # "cancelled" /\ req[d].op = "cancel"
      BY <1>0, <2>3 DEF CancelCommit, Current, CancelCurrent, At, TakesBets
    <3>2. eventStatus[req[c].event] = "cancelled" /\ req[c].op = "cancel"
      BY <1>1, <2>1, <2>3 DEF AnswerOK
    <3> QED
      BY <2>3, <3>1, <3>2 DEF MarketsOf, OutcomesOf
  <2> QED
    BY <1>1, <2>1, <2>2, <2>3 DEF Answering
<1>2. ASSUME NEW b \in Calls \ {d}, NEW c \in Calls \ {d}, finished(b), finished(c),
             reply'[c].kind = reply'[b].kind, MarketsOf(b)' \cap MarketsOf(c)' # {}
      PROVE  b = c
  <2>1. /\ reply'[b] = reply[b] /\ req'[b] = req[b]
        /\ reply'[c] = reply[c] /\ req'[c] = req[c]
    BY <1>2 DEF Answering
  <2>2. MarketsOf(b)' = MarketsOf(b) /\ MarketsOf(c)' = MarketsOf(c)
    BY <2>1 DEF MarketsOf
  <2> QED
    BY <1>2, <2>1, <2>2 DEF DoneOnce
<1>3. \A b, c \in Calls :
        finished(b) /\ reply'[c].kind = reply'[b].kind /\ MarketsOf(b)' \cap MarketsOf(c)' # {}
          => b = c
  BY <1>1, <1>2
<1> QED
  BY <1>3 DEF DoneOnce

LEMMA AnswersKept == AnswerInv /\ [Next]_vars => AnswerInv'
<1> SUFFICES ASSUME AnswerInv, [Next]_vars
             PROVE  AnswerInv'
  OBVIOUS
<1>0. /\ Inv /\ TypeOK /\ W!OnePaymentPerKey /\ DoneOnce /\ \A c \in Calls : AnswerOK(c)
      /\ Inv' /\ [W!Next]_W!tables
  BY InvParts, NextKeeps DEF AnswerInv
<1>1. W!OnePaymentPerKey'
  BY <1>0, KeepsKeys
<1>2. ASSUME NEW d \in Calls, CallMoves(d)
      PROVE  DoneOnce' /\ \A c \in Calls : AnswerOK(c)'
  <2>1. Answering(d) /\ pc[d] # "done" /\ reply[d] = Silence
    BY <1>0, <1>2, MovesAnswer, MovesActive DEF AnswerOK
  <2>2. ASSUME NEW c \in Calls \ {d}
        PROVE  AnswerOK(c)'
    BY <1>0, <2>1, AnswerStands DEF Answering
  <2>3. CASE reply'[d] # reply[d]
    BY <1>0, <2>1, <2>2, <2>3, AnswerComes, AnswersOnce
  <2>4. CASE reply'[d] = reply[d]
    <3>1. AnswerOK(d)'
      BY <2>1, <2>4 DEF AnswerOK, Silence
    <3> QED
      BY <1>0, <2>1, <2>2, <3>1, AnswersOnce
  <2> QED
    BY <2>3, <2>4
<1>3. ASSUME UNCHANGED calls
      PROVE  DoneOnce' /\ \A c \in Calls : AnswerOK(c)'
  <2>1. \A c \in Calls : reply'[c] = reply[c] /\ req'[c] = req[c] /\ pc'[c] = pc[c]
    BY <1>3 DEF calls
  <2>2. \A c \in Calls : AnswerOK(c)'
    BY <1>0, <2>1, AnswerStands
  <2>3. DoneOnce'
    BY <1>0, <2>1 DEF DoneOnce, MarketsOf
  <2> QED
    BY <2>2, <2>3
<1>4. UNCHANGED calls \/ \E d \in Calls : CallMoves(d)
  <2>1. CASE Outside
    BY <1>0, <2>1, EnvironmentKeeps
  <2>2. CASE ~ Outside
    BY <2>2 DEF Next, Outside, CallMoves, Finished, vars
  <2> QED
    BY <2>1, <2>2
<1> QED
  BY <1>0, <1>1, <1>2, <1>3, <1>4 DEF AnswerInv

LEMMA AnswersHold == Spec => []AnswerInv
<1>1. Init => AnswerInv
  BY InitKeeps DEF Init, W!Init, W!OnePaymentPerKey,
     AnswerInv, AnswerOK, DoneOnce, Silence
<1> QED
  BY <1>1, AnswersKept, PTL DEF Spec

\* However often a settlement or a cancellation is asked for, and whatever runs
\* beside it, one call alone is told that it did the work.
THEOREM DoneOnlyOnce == Spec => []DoneOnce
<1>1. AnswerInv => DoneOnce
  BY DEF AnswerInv
<1> QED
  BY <1>1, AnswersHold, PTL

\* Whoever is told that a bet was placed has it charged under the key, and nothing
\* else is ever paid under that key; whoever is told of a replay is told of the
\* bet of the only payment with the key - whatever keys callers choose, among them
\* those of subscriptions, payouts and refunds.
THEOREM ChargedOnlyOnce == Spec => []ChargedOnce
<1>1. AnswerInv => ChargedOnce
  <2> SUFFICES ASSUME AnswerInv, NEW c \in Calls
               PROVE  LET under(k) == {p \in payments : p.key = k}
                      IN  /\ reply[c].kind = "placed" =>
                               /\ reply[c].bet = c /\ bets[c] # None
                               /\ under(req[c].key) = {Charge(c, bets[c], req[c].key)}
                          /\ reply[c].kind = "replayed" =>
                               \E p \in payments : /\ under(req[c].key) = {p}
                                                   /\ p.bet = reply[c].bet
    BY DEF ChargedOnce
  <2>1. AnswerOK(c)
    BY DEF AnswerInv
  <2>2. ASSUME NEW p \in payments, p.key = req[c].key
        PROVE  {q \in payments : q.key = req[c].key} = {p}
    BY <2>2 DEF AnswerInv, W!OnePaymentPerKey
  <2>3. Charge(c, bets[c], req[c].key).key = req[c].key
    BY DEF Charge
  <2> QED
    BY <2>1, <2>2, <2>3 DEF AnswerOK
<1> QED
  BY <1>1, AnswersHold, PTL

-----------------------------------------------------------------------------
(* The order of the locks. *)

\* A transaction that has locked a bet or its price has locked the outcome, and
\* locks a session only against its end.
LockedUnder(c) ==
  \A m \in held[c] :
    /\ m.row[1] = "snapshot" => Has(c, "outcome", m.row[2][1])
    /\ m.row[1] = "bet" => /\ bets[m.row[2]] # None
                           /\ Has(c, "outcome", bets[m.row[2]].snap.outcome)
    /\ m.row[1] = "session" => m.mode = "key_share"

\* What it holds while it locks the market: users first, then outcomes in order,
\* then the event.
LockedSoFar(c) ==
  /\ pc[c] \in {"idle", "user", "done"} => held[c] = {}
  /\ pc[c] \in {"key", "outcome"} => \A m \in held[c] : m.row[1] = "user"
  /\ pc[c] = "outcomes" =>
       \A m \in held[c] : m.row[1] = "outcome" /\ \A x \in Unlocked(c) : m.row[2] < x
  /\ pc[c] = "event" => \A m \in held[c] : m.row[1] \in {"user", "outcome"}
  /\ pc[c] = "outcomes" => req[c].op = "cancel"
  /\ pc[c] = "bet" => req[c].op = "place"
  /\ pc[c] = "rows" => req[c].op \in {"settle", "cancel"}

LocksInv == Inv /\ \A c \in Calls : LockedUnder(c) /\ LockedSoFar(c)

\* The markets of a call that resolves bets, or places one, are its own.
LEMMA OwnMarkets ==
  ASSUME Inv, NEW d \in Calls
  PROVE  /\ pc[d] = "bet" /\ req[d].op = "place" =>
              snap[d].outcome = req[d].outcome /\ Has(d, "outcome", snap[d].outcome)
         /\ pc[d] = "rows" /\ req[d].op \in {"settle", "cancel"} =>
              \A b \in Due(d) : b \in Calls /\ bets[b] # None
                                /\ Has(d, "outcome", bets[b].snap.outcome)
<1>1. Current(d) /\ DOMAIN bets = Calls
  BY InvParts, TableTypes
<1>2. pc[d] = "bet" /\ req[d].op = "place" =>
        snap[d].outcome = req[d].outcome /\ Has(d, "outcome", snap[d].outcome)
  BY <1>1 DEF Current, PlaceCurrent, IsNewest
<1>3. ASSUME pc[d] = "rows", req[d].op \in {"settle", "cancel"}, NEW b \in Due(d)
      PROVE  b \in Calls /\ bets[b] # None /\ Has(d, "outcome", bets[b].snap.outcome)
  <2>1. b \in Calls /\ bets[b] # None /\ bets[b].snap.outcome \in MarketsOf(d)
    BY <1>1, <1>3 DEF Due, PendingOn
  <2>2. \A o \in MarketsOf(d) : Has(d, "outcome", o)
    BY <1>1, <1>3 DEF MarketsOf, Current, SettleCurrent, CancelCurrent
  <2> QED
    BY <2>1, <2>2
<1> QED
  BY <1>2, <1>3

\* What a statement adds to the locks.
LEMMA WantedUnder ==
  ASSUME Inv, NEW d \in Calls, LockedSoFar(d), NEW l \in Wanted(d)
  PROVE  /\ l.row[1] = "snapshot" => Has(d, "outcome", l.row[2][1])
         /\ l.row[1] = "bet" => /\ bets[l.row[2]] # None
                                /\ Has(d, "outcome", bets[l.row[2]].snap.outcome)
         /\ l.row[1] = "session" => l.mode = "key_share"
<1>1. CASE pc[d] = "bet"
  <2>1. Has(d, "outcome", snap[d].outcome)
    BY <1>1, OwnMarkets DEF LockedSoFar
  <2>2. \/ l \in KeyShare("snapshot", {SnapshotId(snap[d])})
        \/ l \in KeyShare("session", {req[d].session} \ {None})
    BY <1>1, WantedAt
  <2> QED
    BY <2>1, <2>2 DEF KeyShare, SnapshotId
<1>2. CASE pc[d] = "rows"
  <2>1. \A b \in Due(d) : bets[b] # None /\ Has(d, "outcome", bets[b].snap.outcome)
    BY <1>2, OwnMarkets DEF LockedSoFar
  <2>2. \/ l \in ForUpdate("bet", Due(d))
        \/ l \in ForUpdate("snapshot", {SnapshotId(bets[b].snap) : b \in Due(d)})
    BY <1>2, WantedAt
  <2> QED
    BY <2>1, <2>2 DEF ForUpdate, SnapshotId
<1>3. CASE pc[d] = "refer"
  <2> DEFINE users == {bets[b].user : b \in rows[d]}
  <2>1. l \in KeyShare("user", users)
    BY <1>3, WantedAt
  <2> HIDE DEF users
  <2> QED
    BY <2>1 DEF KeyShare
<1>4. CASE pc[d] \in {"user", "outcome", "outcomes", "event"}
  <2>1. \E table \in {"user", "outcome", "event"} : \E ids : l \in ForUpdate(table, ids)
    BY <1>4, WantedAt
  <2> QED
    BY <2>1 DEF ForUpdate
<1> QED
  BY <1>1, <1>2, <1>3, <1>4 DEF Wanted

LEMMA StatementUnder ==
  ASSUME Inv, NEW d \in Calls, NEW label, Statement(d, label), LockedUnder(d), LockedSoFar(d)
  PROVE  LockedUnder(d)'
<1>1. held'[d] = held[d] \cup Wanted(d) /\ bets' = bets
  BY InvParts DEF Statement, database, TypeOK
<1>2. \A table, i : Has(d, table, i) => Has(d, table, i)'
  BY <1>1 DEF Has
<1>3. ASSUME NEW m \in held'[d]
      PROVE  /\ m.row[1] = "snapshot" => Has(d, "outcome", m.row[2][1])
             /\ m.row[1] = "bet" => /\ bets[m.row[2]] # None
                                    /\ Has(d, "outcome", bets[m.row[2]].snap.outcome)
             /\ m.row[1] = "session" => m.mode = "key_share"
  BY <1>1, <1>3, WantedUnder DEF LockedUnder
<1> QED
  BY <1>1, <1>2, <1>3 DEF LockedUnder

\* The statements that go on, and where from.
Goes(d, op, from, to) == At(d, op, from) /\ \E label \in to : Statement(d, label)

Moving(d) ==
  \/ Goes(d, "place", "user", {"key"})
  \/ Goes(d, "place", "key", {"outcome"})
  \/ \E op \in {"place", "settle"} : Goes(d, op, "outcome", {"event"})
  \/ Goes(d, "cancel", "outcomes", {"event"})
  \/ Goes(d, "cancel", "outcomes", {"outcomes"})
  \/ Goes(d, "place", "event", {"price"})
  \/ \E from \in {"price", "session"} : Goes(d, "place", from, {"session", "bet"})
  \/ \E op \in {"settle", "cancel"} : Goes(d, op, "event", {"rows"})
  \/ \E label \in {"payment", "credit", "refer", "commit"} : Statement(d, label)

\* A transaction that ends, or starts, holds nothing.
Bare(d) ==
  /\ held'[d] = {}
  /\ \/ pc'[d] = "done"
     \/ req'[d] \in Requests /\ pc'[d] = FirstLabel(req'[d])

LEMMA StepMoves ==
  ASSUME Inv, NEW d \in Calls, Step(d)
  PROVE  Moving(d) \/ Bare(d)
<1>0. TypeOK
  BY InvParts
<1>1. ASSUME NEW kind, NEW b, Answer(d, kind, b)
      PROVE  Bare(d)
  BY <1>0, <1>1 DEF Answer, Bare, TypeOK
<1>2. CASE Place(d)
  BY <1>1, <1>2 DEF Place, PlaceLockUser, PlaceCheckKey, PlaceLockOutcome, PlaceLockEvent,
     PlaceReadPrice, PlaceCheckSession, PlaceInsertBet, PlaceInsertPayment, PlaceCommit,
     InsertPayments, Proceed, Reject, Return, Committed, Moving, Goes
<1>3. CASE Settle(d)
  BY <1>1, <1>3 DEF Settle, SettleLockOutcome, SettleLockEvent, SettleLockBets,
     SettleInsertPayouts, SettleReferPayouts, SettleCommit,
     InsertPayments, Proceed, Reject, Return, Committed, Moving, Goes
<1>4. CASE Cancel(d)
  BY <1>1, <1>4 DEF Cancel, CancelLockOutcome, CancelLockEvent, CancelLockBets,
     CancelInsertRefunds, CancelReferRefunds, CancelCommit,
     InsertPayments, Proceed, Reject, Return, Committed, Moving, Goes
<1> QED
  BY <1>2, <1>3, <1>4 DEF Step

LEMMA OthersBare ==
  ASSUME Inv, NEW d \in Calls, LockedSoFar(d),
         (\E r \in Requests : Start(d, r)) \/ Fail(d) \/ Deadlocked(d) \/ DeadlockedOutside(d)
  PROVE  Bare(d)
<1>0. TypeOK /\ Current(d)
  BY InvParts
<1>1. ASSUME NEW r \in Requests, Start(d, r)
      PROVE  Bare(d)
  BY <1>0, <1>1 DEF Start, Bare, LockedSoFar, TypeOK
<1>2. CASE Return(d, "error")
  BY <1>0, <1>2 DEF Return, Answer, Bare, TypeOK
<1>3. CASE (Deadlocked(d) \/ DeadlockedOutside(d)) /\ ~ Return(d, "error")
  <2>1. pc[d] \notin {"idle", "done"} /\ RunAgain(d)
    BY <1>3, DeadlockedIsActive
  <2>2. req[d] \in Requests
    BY <2>1, InsertedRequest
  <2> QED
    BY <1>0, <1>3, <2>1, <2>2 DEF RunAgain, Bare, TypeOK
<1> QED
  BY <1>1, <1>2, <1>3 DEF Fail

LEMMA BareOrder ==
  ASSUME NEW d \in Calls, Bare(d)
  PROVE  LockedUnder(d)' /\ LockedSoFar(d)'
<1>1. \A r \in Requests : /\ FirstLabel(r) \in {"user", "outcome", "event", "outcomes"}
                          /\ FirstLabel(r) = "outcomes" => r.op = "cancel"
  <2> TAKE r \in Requests
  <2>1. /\ r.op = "place"  => FirstLabel(r) = "user"
        /\ r.op = "settle" => FirstLabel(r) = "outcome"
        /\ r.op = "cancel" => FirstLabel(r) = IF OutcomesOf(r.event) = {} THEN "event"
                                                                          ELSE "outcomes"
    BY DEF FirstLabel
  <2> QED
    BY <2>1, RequestTypes
<1> QED
  BY <1>1 DEF Bare, LockedUnder, LockedSoFar

LEMMA MarketWanted ==
  ASSUME NEW c \in Calls
  PROVE  /\ pc[c] \in {"user", "key"} => \A m \in Wanted(c) : m.row[1] = "user"
         /\ pc[c] \in {"outcome", "outcomes"} => \A m \in Wanted(c) : m.row[1] = "outcome"
<1>1. ASSUME NEW table, NEW ids, NEW m \in ForUpdate(table, ids)
      PROVE  m.row[1] = table
  BY <1>1 DEF ForUpdate
<1>2. /\ pc[c] = "user" => \E ids : Wanted(c) = ForUpdate("user", ids)
      /\ pc[c] = "key" => Wanted(c) = {}
      /\ pc[c] \in {"outcome", "outcomes"} => \E ids : Wanted(c) = ForUpdate("outcome", ids)
  BY WantedAt
<1> QED
  BY <1>1, <1>2

LEMMA MovingOrder ==
  ASSUME Inv, NEW d \in Calls, Moving(d), LockedUnder(d), LockedSoFar(d)
  PROVE  LockedUnder(d)' /\ LockedSoFar(d)'
<1>0. TypeOK
  BY InvParts
<1>1. ASSUME NEW label, Statement(d, label)
      PROVE  /\ held'[d] = held[d] \cup Wanted(d) /\ pc'[d] = label /\ req' = req
             /\ LockedUnder(d)'
  BY <1>0, <1>1, StatementUnder DEF Statement, TypeOK
<1>2. CASE \/ Goes(d, "place", "user", {"key"})
           \/ Goes(d, "place", "key", {"outcome"})
  <2>1. /\ held'[d] = held[d] \cup Wanted(d) /\ LockedUnder(d)'
        /\ pc[d] \in {"user", "key"} /\ pc'[d] \in {"key", "outcome"}
    BY <1>1, <1>2 DEF Goes, At
  <2>2. \A m \in Wanted(d) : m.row[1] = "user"
    BY <2>1, MarketWanted
  <2> QED
    BY <2>1, <2>2 DEF LockedSoFar
<1>3. CASE \E op \in {"place", "settle"} : Goes(d, op, "outcome", {"event"})
  <2>1. /\ held'[d] = held[d] \cup Wanted(d) /\ LockedUnder(d)'
        /\ pc[d] = "outcome" /\ pc'[d] = "event"
    BY <1>1, <1>3 DEF Goes, At
  <2>2. \A m \in Wanted(d) : m.row[1] = "outcome"
    BY <2>1, MarketWanted
  <2> QED
    BY <2>1, <2>2 DEF LockedSoFar
<1>4. CASE Goes(d, "cancel", "outcomes", {"event"})
  <2>1. /\ held'[d] = held[d] \cup Wanted(d) /\ LockedUnder(d)'
        /\ pc[d] = "outcomes" /\ pc'[d] = "event"
    BY <1>1, <1>4 DEF Goes, At
  <2>2. \A m \in Wanted(d) : m.row[1] = "outcome"
    BY <2>1, MarketWanted
  <2>3. \A m \in held[d] : m.row[1] = "outcome"
    BY <2>1 DEF LockedSoFar
  <2> QED
    BY <2>1, <2>2, <2>3 DEF LockedSoFar
<1>5. CASE Goes(d, "cancel", "outcomes", {"outcomes"})
  <2>1. /\ held'[d] = held[d] \cup ForUpdate("outcome", FirstUnlocked(d)) /\ req' = req
        /\ pc'[d] = "outcomes" /\ pc[d] = "outcomes" /\ req[d].op = "cancel"
    BY <1>1, <1>5, WantedAt DEF Goes, At
  <2>2. ASSUME NEW x \in Unlocked(d)'
        PROVE  x \in Unlocked(d) /\ x \notin FirstUnlocked(d) /\ x \in Int
    BY <2>1, <2>2, TablesAssumption DEF Unlocked, ForUpdate, OutcomesOf
  <2>3. ASSUME NEW m \in held'[d], NEW x \in Unlocked(d)'
        PROVE  m.row[2] < x
    <3>1. CASE m \in held[d]
      BY <2>1, <2>2, <3>1 DEF LockedSoFar
    <3>2. CASE m \in ForUpdate("outcome", FirstUnlocked(d))
      <4>1. m.row[2] \in FirstUnlocked(d)
        BY <3>2 DEF ForUpdate
      <4>2. m.row[2] \in Int /\ m.row[2] <= x /\ m.row[2] # x
        BY <2>2, <4>1, TablesAssumption DEF FirstUnlocked, Unlocked, OutcomesOf
      <4> QED
        BY <2>2, <4>2
    <3> QED
      BY <2>1, <3>1, <3>2
  <2>4. \A m \in held'[d] : m.row[1] = "outcome"
    BY <2>1 DEF LockedSoFar, ForUpdate
  <2>5. LockedUnder(d)'
    BY <1>1, <1>5 DEF Goes
  <2> QED
    BY <2>1, <2>3, <2>4, <2>5 DEF LockedSoFar
<1>6. CASE \/ Goes(d, "place", "event", {"price"})
           \/ \E from \in {"price", "session"} : Goes(d, "place", from, {"session", "bet"})
           \/ \E op \in {"settle", "cancel"} : Goes(d, op, "event", {"rows"})
           \/ \E label \in {"payment", "credit", "refer", "commit"} : Statement(d, label)
  BY <1>1, <1>6 DEF Goes, At, LockedSoFar
<1> QED
  BY <1>2, <1>3, <1>4, <1>5, <1>6 DEF Moving

LEMMA MovesOnly ==
  ASSUME Inv, NEW d \in Calls, CallMoves(d)
  PROVE  OnlyCall(d)
<1>0. TypeOK
  BY InvParts
<1>1. ASSUME NEW kind, NEW b, Answer(d, kind, b)
      PROVE  OnlyCall(d)
  BY <1>0, <1>1 DEF Answer, OnlyCall, TypeOK
<1>2. CASE Step(d)
  <2>1. CASE PlaceCommit(d) \/ SettleCommit(d) \/ CancelCommit(d)
    BY <1>1, <2>1 DEF PlaceCommit, SettleCommit, CancelCommit, Committed
  <2>2. CASE ~ (PlaceCommit(d) \/ SettleCommit(d) \/ CancelCommit(d))
    BY <1>2, <2>2, PlaceIsQuiet, SettleIsQuiet, CancelIsQuiet
       DEF Step, Place, Settle, Cancel, Quiet
  <2> QED
    BY <2>1, <2>2
<1>3. CASE (\E r \in Requests : Start(d, r)) \/ Fail(d) \/ Deadlocked(d) \/ DeadlockedOutside(d)
  BY <1>3, StartIsQuiet, FailIsQuiet, RetryIsQuiet DEF Quiet
<1> QED
  BY <1>2, <1>3 DEF CallMoves

\* A call that does not move keeps its place in the order.
LEMMA RestOrder ==
  ASSUME Inv, [W!Next]_W!tables, NEW c \in Calls, LockedUnder(c), LockedSoFar(c),
         held'[c] = held[c], pc'[c] = pc[c], req'[c] = req[c]
  PROVE  LockedUnder(c)' /\ LockedSoFar(c)'
<1>0. TypeOK
  BY InvParts
<1>1. \A table, i : Has(c, table, i)' <=> Has(c, table, i)
  BY DEF Has
<1>2. ASSUME NEW m \in held[c], m.row[1] = "bet"
      PROVE  m.row[2] \in Calls
  BY <1>0, <1>2 DEF TypeOK, LockedRows
<1>3. LockedUnder(c)'
  BY <1>0, <1>1, <1>2, TablesKeep DEF LockedUnder, Placed
<1>4. Unlocked(c)' = Unlocked(c)
  BY DEF Unlocked
<1> QED
  BY <1>3, <1>4 DEF LockedSoFar

LEMMA OrderKept == LocksInv /\ [Next]_vars => LocksInv'
<1> SUFFICES ASSUME LocksInv, [Next]_vars
             PROVE  LocksInv'
  OBVIOUS
<1>0. /\ Inv /\ Inv' /\ [W!Next]_W!tables
      /\ \A c \in Calls : LockedUnder(c) /\ LockedSoFar(c)
  BY NextKeeps DEF LocksInv
<1>1. ASSUME NEW d \in Calls, CallMoves(d)
      PROVE  \A c \in Calls : LockedUnder(c)' /\ LockedSoFar(c)'
  <2>1. OnlyCall(d)
    BY <1>0, <1>1, MovesOnly
  <2>2. LockedUnder(d)' /\ LockedSoFar(d)'
    <3>1. Moving(d) \/ Bare(d)
      BY <1>0, <1>1, StepMoves, OthersBare DEF CallMoves
    <3> QED
      BY <1>0, <3>1, MovingOrder, BareOrder
  <2> QED
    BY <1>0, <2>1, <2>2, RestOrder DEF OnlyCall
<1>2. ASSUME UNCHANGED calls
      PROVE  \A c \in Calls : LockedUnder(c)' /\ LockedSoFar(c)'
  BY <1>0, <1>2, RestOrder DEF calls
<1>3. UNCHANGED calls \/ \E d \in Calls : CallMoves(d)
  <2>1. CASE Outside
    BY <1>0, <2>1, EnvironmentKeeps
  <2>2. CASE ~ Outside
    BY <2>2 DEF Next, Outside, CallMoves, Finished, vars
  <2> QED
    BY <2>1, <2>2
<1> QED
  BY <1>0, <1>1, <1>2, <1>3 DEF LocksInv

\* Whoever holds a row in the way of a lock on it.
LEMMA WaitsForHolder ==
  ASSUME NEW c \in Calls, NEW x \in MarketWaits[c], DOMAIN held = Calls, ~ Inserts(c)
  PROVE  /\ x \in Calls \ {c}
         /\ \E l \in Wanted(c), m \in held[x] : l.row[1] # "user" /\ Conflict(l, m)
BY DEF MarketWaits, Holders, KeyHolders

\* Whoever waits for a key waits for a transaction that has inserted its payments.
PastTheKeys == {d \in Calls : pc[d] \in {"refer", "commit"}}

LEMMA KeyWaits ==
  ASSUME NEW c \in Calls, Inserts(c)
  PROVE  MarketWaits[c] \subseteq PastTheKeys
<1>1. Wanted(c) = {}
  BY WantedAt DEF Inserts
<1>2. MarketWaits[c] \subseteq SameKeyInFlight(c)
  BY <1>1 DEF MarketWaits, Holders, KeyHolders
<1> QED
  BY <1>2 DEF SameKeyInFlight, InFlight, PastTheKeys

LEMMA OnlyMarketsWait ==
  ASSUME LocksInv, NEW c \in Calls, ~ Inserts(c),
         pc[c] \notin {"outcome", "outcomes", "event"}
  PROVE  MarketWaits[c] = {}
<1> SUFFICES ASSUME NEW x \in MarketWaits[c]
             PROVE  FALSE
  OBVIOUS
<1>0. /\ Inv /\ TypeOK /\ Exclusive(held) /\ DOMAIN held = Calls
      /\ LockedSoFar(c) /\ \A d \in Calls : LockedUnder(d)
  BY InvParts DEF LocksInv, TypeOK
<1>1. PICK l \in Wanted(c), m \in held[x] : l.row[1] # "user" /\ Conflict(l, m)
  BY <1>0, WaitsForHolder
<1>2. x \in Calls \ {c} /\ l.row = m.row
  BY <1>0, <1>1, WaitsForHolder DEF Conflict
<1>3. ASSUME NEW o, Has(c, "outcome", o), Has(x, "outcome", o)
      PROVE  FALSE
  <2>1. \E n \in held[x] : n.row = <<"outcome", o>>
    BY <1>3 DEF Has
  <2> QED
    BY <1>0, <1>2, <1>3, <2>1, OneOwner
<1>4. CASE l.row[1] = "snapshot"
  BY <1>0, <1>2, <1>3, <1>4, WantedUnder DEF LockedUnder
<1>5. CASE l.row[1] = "bet"
  BY <1>0, <1>2, <1>3, <1>5, WantedUnder DEF LockedUnder
<1>6. CASE l.row[1] = "session"
  BY <1>0, <1>1, <1>2, <1>6, WantedUnder DEF LockedUnder, Conflict
<1>7. l.row[1] \in {"user", "snapshot", "bet", "session"}
  <2>1. ASSUME NEW table, NEW ids, l \in ForUpdate(table, ids) \/ l \in KeyShare(table, ids)
        PROVE  l.row[1] = table
    BY <2>1 DEF ForUpdate, KeyShare
  <2>2. \E table \in {"user", "snapshot", "bet", "session"} : \E ids :
          l \in ForUpdate(table, ids) \/ l \in KeyShare(table, ids)
    <3>1. CASE pc[c] = "user"
      BY <3>1, WantedAt
    <3>2. CASE pc[c] = "bet"
      BY <3>2, WantedAt
    <3>3. CASE pc[c] = "rows"
      BY <3>3, WantedAt
    <3>4. CASE pc[c] = "refer"
      BY <3>4, WantedAt
    <3> QED
      BY <3>1, <3>2, <3>3, <3>4 DEF Wanted
  <2> QED
    BY <2>1, <2>2
<1> QED
  BY <1>1, <1>4, <1>5, <1>6, <1>7

\* Whom a call waits for that locks the event, and one that locks an outcome.
PastTheEvent == {d \in Calls : pc[d] \notin {"outcome", "outcomes", "event"}}
PastOutcome(o) == {d \in Calls : \/ pc[d] \notin {"outcome", "outcomes"}
                                 \/ pc[d] = "outcomes" /\ \A q \in Unlocked(d) : o < q}

LEMMA PastTheEventIsClosed ==
  ASSUME LocksInv, NEW d \in PastTheEvent
  PROVE  MarketWaits[d] \subseteq PastTheEvent
<1>1. CASE Inserts(d)
  BY <1>1, KeyWaits DEF PastTheEvent, PastTheKeys
<1>2. CASE ~ Inserts(d)
  BY <1>2, OnlyMarketsWait DEF PastTheEvent
<1> QED
  BY <1>1, <1>2

LEMMA EventWaits ==
  ASSUME LocksInv, NEW c \in Calls, pc[c] = "event"
  PROVE  MarketWaits[c] \subseteq PastTheEvent
<1> SUFFICES ASSUME NEW x \in MarketWaits[c]
             PROVE  x \in PastTheEvent
  OBVIOUS
<1>0. DOMAIN held = Calls /\ ~ Inserts(c) /\ \A d \in Calls : LockedSoFar(d)
  BY InvParts DEF LocksInv, TypeOK, Inserts
<1>1. PICK l \in Wanted(c), m \in held[x] : Conflict(l, m)
  BY <1>0, WaitsForHolder
<1>2. l.row[1] = "event"
  <2>1. l \in ForUpdate("event", {EventFor(c)} \cap Events)
    BY WantedAt
  <2> QED
    BY <2>1 DEF ForUpdate
<1>3. m.row[1] = "event" /\ x \in Calls
  BY <1>0, <1>1, <1>2, WaitsForHolder DEF Conflict
<1> QED
  BY <1>0, <1>3 DEF LockedSoFar, PastTheEvent

LEMMA OutcomeWaits ==
  ASSUME LocksInv, NEW c \in Calls, NEW o \in Int, NEW q \in Outcomes,
         Wanted(c) \subseteq ForUpdate("outcome", {q}), o <= q, ~ Inserts(c)
  PROVE  MarketWaits[c] \subseteq PastOutcome(o)
<1> SUFFICES ASSUME NEW x \in MarketWaits[c]
             PROVE  x \in PastOutcome(o)
  OBVIOUS
<1>0. DOMAIN held = Calls /\ \A d \in Calls : LockedSoFar(d)
  BY InvParts DEF LocksInv, TypeOK
<1>1. PICK l \in Wanted(c), m \in held[x] : Conflict(l, m)
  BY <1>0, WaitsForHolder
<1>2. m.row = <<"outcome", q>> /\ x \in Calls
  BY <1>0, <1>1, WaitsForHolder DEF Conflict, ForUpdate
<1>3. pc[x] # "outcome"
  BY <1>0, <1>2 DEF LockedSoFar
<1>4. ASSUME pc[x] = "outcomes", NEW y \in Unlocked(x)
      PROVE  o < y
  <2>1. q < y /\ y \in Int /\ q \in Int
    BY <1>0, <1>2, <1>4, TablesAssumption DEF LockedSoFar, Unlocked, OutcomesOf
  <2> QED
    BY <2>1
<1> QED
  BY <1>2, <1>3, <1>4 DEF PastOutcome

LEMMA OneUnlocked ==
  ASSUME NEW d \in Calls, pc[d] = "outcomes"
  PROVE  /\ FirstUnlocked(d) = {} => MarketWaits[d] = {}
         /\ \A q \in FirstUnlocked(d) :
              q \in Outcomes /\ Wanted(d) \subseteq ForUpdate("outcome", {q})
<1>1. Wanted(d) = ForUpdate("outcome", FirstUnlocked(d)) /\ FirstUnlocked(d) \subseteq Outcomes
  BY WantedAt DEF FirstUnlocked, Unlocked, OutcomesOf
<1>2. FirstUnlocked(d) = {} => MarketWaits[d] = {}
  BY <1>1 DEF MarketWaits, Holders, ForUpdate, KeyHolders, Inserts
<1>3. ASSUME NEW q \in FirstUnlocked(d), NEW r \in FirstUnlocked(d)
      PROVE  r = q
  <2>1. q <= r /\ r <= q /\ q \in Int /\ r \in Int
    BY <1>1, <1>3, TablesAssumption DEF FirstUnlocked
  <2> QED
    BY <2>1
<1>4. \A q \in FirstUnlocked(d) : FirstUnlocked(d) = {q}
  BY <1>3
<1> QED
  BY <1>1, <1>2, <1>4

\* The past of an outcome waits for the past of that outcome.
LEMMA PastIsClosed ==
  ASSUME LocksInv, NEW o \in Int, NEW d \in PastOutcome(o)
  PROVE  MarketWaits[d] \subseteq PastOutcome(o)
<1>1. CASE pc[d] \notin {"outcome", "outcomes", "event"}
  BY <1>1, PastTheEventIsClosed DEF PastOutcome, PastTheEvent
<1>2. CASE pc[d] = "event"
  BY <1>2, EventWaits DEF PastOutcome, PastTheEvent
<1>3. CASE pc[d] = "outcomes" /\ \A q \in Unlocked(d) : o < q
  <2>1. CASE FirstUnlocked(d) = {}
    BY <1>3, <2>1, OneUnlocked DEF PastOutcome
  <2>2. CASE FirstUnlocked(d) # {}
    <3>1. PICK q \in FirstUnlocked(d) : TRUE
      BY <2>2
    <3>2. q \in Outcomes /\ o <= q /\ Wanted(d) \subseteq ForUpdate("outcome", {q})
      <4>1. q \in Outcomes /\ Wanted(d) \subseteq ForUpdate("outcome", {q}) /\ q \in Int
        BY <1>3, <3>1, OneUnlocked, TablesAssumption DEF PastOutcome
      <4>2. o < q
        BY <1>3, <3>1 DEF FirstUnlocked
      <4> QED
        BY <4>1, <4>2
    <3> QED
      BY <1>3, <3>2, OutcomeWaits DEF PastOutcome, Inserts
  <2> QED
    BY <2>1, <2>2
<1> QED
  BY <1>1, <1>2, <1>3 DEF PastOutcome

LEMMA OrderedWaits == LocksInv => MarketLocksOrdered
<1> SUFFICES ASSUME LocksInv, NEW c \in Calls, OnCycle(c, MarketWaits)
             PROVE  FALSE
  BY DEF MarketLocksOrdered
<1>0. DOMAIN MarketWaits = Calls
  BY DEF MarketWaits
<1>1. ASSUME NEW S \in SUBSET Calls, MarketWaits[c] \subseteq S,
             \A d \in S : MarketWaits[d] \subseteq S
      PROVE  c \in S
  BY <1>0, <1>1 DEF OnCycle
<1>2. CASE pc[c] \notin {"outcome", "outcomes", "event"}
  <2>1. CASE Inserts(c)
    <3>1. \A d \in PastTheKeys : MarketWaits[d] = {}
      BY OnlyMarketsWait DEF PastTheKeys, Inserts
    <3>2. c \notin PastTheKeys /\ PastTheKeys \subseteq Calls
      BY <2>1 DEF PastTheKeys, Inserts
    <3> QED
      BY <1>1, <2>1, <3>1, <3>2, KeyWaits
  <2>2. CASE ~ Inserts(c)
    BY <1>1, <1>2, <2>2, OnlyMarketsWait
  <2> QED
    BY <2>1, <2>2
<1>3. CASE pc[c] = "event"
  <2>1. c \notin PastTheEvent /\ PastTheEvent \subseteq Calls
    BY <1>3 DEF PastTheEvent
  <2> QED
    BY <1>1, <1>3, <2>1, EventWaits, PastTheEventIsClosed
<1>4. ASSUME NEW o \in Outcomes, Wanted(c) \subseteq ForUpdate("outcome", {o}),
             c \notin PastOutcome(o), ~ Inserts(c)
      PROVE  FALSE
  <2>1. o \in Int
    BY TablesAssumption
  <2>2. MarketWaits[c] \subseteq PastOutcome(o)
    BY <1>4, <2>1, OutcomeWaits
  <2> QED
    BY <1>1, <1>4, <2>1, <2>2, PastIsClosed DEF PastOutcome
<1>5. ASSUME Wanted(c) = {}, ~ Inserts(c)
      PROVE  FALSE
  <2>1. MarketWaits[c] = {}
    BY <1>5 DEF MarketWaits, Holders, KeyHolders
  <2> QED
    BY <1>1, <2>1
<1>6. CASE pc[c] = "outcome"
  <2>1. Wanted(c) = ForUpdate("outcome", {req[c].outcome} \cap Outcomes) /\ ~ Inserts(c)
    BY <1>6, WantedAt DEF Inserts
  <2>2. CASE req[c].outcome \in Outcomes
    BY <1>4, <1>6, <2>1, <2>2 DEF PastOutcome
  <2>3. CASE req[c].outcome \notin Outcomes
    BY <1>5, <2>1, <2>3 DEF ForUpdate
  <2> QED
    BY <2>2, <2>3
<1>7. CASE pc[c] = "outcomes"
  <2>1. CASE FirstUnlocked(c) = {}
    BY <1>5, <1>7, <2>1, WantedAt DEF ForUpdate, Inserts
  <2>2. CASE FirstUnlocked(c) # {}
    <3>1. PICK o \in FirstUnlocked(c) : TRUE
      BY <2>2
    <3>2. o \in Outcomes /\ o \in Unlocked(c) /\ o \in Int
          /\ Wanted(c) \subseteq ForUpdate("outcome", {o})
      BY <1>7, <3>1, OneUnlocked, TablesAssumption DEF FirstUnlocked
    <3> QED
      BY <1>4, <1>7, <3>2 DEF PastOutcome, Inserts
  <2> QED
    BY <2>1, <2>2
<1> QED
  BY <1>2, <1>3, <1>6, <1>7

\* Whatever is placed, settled and cancelled at once, no cycle of waiting calls
\* goes through outcomes, events, prices, bets, sessions and idempotency keys alone.
THEOREM MarketsNeverDeadlock == Spec => []MarketLocksOrdered
<1>1. Init => LocksInv
  BY InitKeeps DEF Init, LocksInv, LockedUnder, LockedSoFar
<1> QED
  BY <1>1, OrderKept, OrderedWaits, PTL DEF Spec
=============================================================================
