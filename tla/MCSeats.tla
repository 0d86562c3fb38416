------------------------------ MODULE MCSeats ------------------------------
(***************************************************************************)
(* Small instances of Seats for TLC.                                       *)
(***************************************************************************)
EXTENDS Seats, TLC

Symmetry == Permutations(Calls)

SignUpAs(e)       == <<[op |-> "register", email |-> e]>>
BuyBy(u, p, m, k) == <<[op |-> "purchase", user |-> u, plan |-> p, months |-> m, key |-> k]>>
StartBy(u, e)     == <<[op |-> "start", user |-> u, event |-> e]>>
End(x)            == <<[op |-> "end", session |-> x]>>
EndAll(xs)        == <<[op |-> "bulk", sessions |-> xs]>>

\* One plan with a seat, one with two, and one that costs nothing.
MCCapOf   == [p \in Plans |-> IF p = "basic" THEN 1 ELSE 2]
MCPriceOf == [p \in Plans |-> IF p = "free" THEN 0 ELSE 499]

MCMonths    == -1 .. 1
MCCanonical == [e \in Emails |-> IF e = "ANA" THEN "ana" ELSE e]
MCSeedUsers == {[id |-> u, email |-> u] : u \in UserIds \ {"u9"}}
MCSeedSubs  == {[id |-> "s1", user |-> "u1", plan |-> "standard", ends |-> 0]}
MCTwoOpen   == {[id |-> x, sub |-> "s1", event |-> "e1"] : x \in SessionIds}

\* User 1 has a subscription, which runs out, and both its seats taken; users 2
\* and 3 buy, with keys they share with each other and with a bet, and with what
\* may be wrong with a purchase.  Seats are freed one by one and in bulk.  One
\* address signs up in two spellings, alone and to buy and watch at once.
SeatRequests ==
  {BuyBy("u2", "basic", 1, k) : k \in Keys}
    \cup {BuyBy("u3", "basic", 1, "k1"), BuyBy("u2", "free", 1, "kb"),
          BuyBy("u2", "basic", -1, "kb"), BuyBy("u2", "none", 1, "kb"),
          BuyBy("u9", "basic", 1, "kb")}
    \cup {StartBy("u1", "e1"), StartBy("u2", "e1")}
    \cup {End("x1"), EndAll(SessionIds)}
    \cup {SignUpAs("ANA"), Enroll("ana", "basic")}

\* A subscription that has run out.
RenewRequests == {BuyBy("u1", "basic", 1, "k1")}
=============================================================================
