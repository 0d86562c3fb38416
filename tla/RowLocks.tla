----------------------------- MODULE RowLocks -----------------------------
(***************************************************************************)
(* Row-level locks of PostgreSQL as the operations use them, external to   *)
(* the repository.  SELECT ... FOR UPDATE (db.py: lock) takes the          *)
(* strongest lock of a row, which nothing is compatible with; an UPDATE of *)
(* columns outside the keys takes FOR NO KEY UPDATE, compatible with FOR   *)
(* KEY SHARE only, which an INSERT takes on every row its foreign keys     *)
(* name.  A transaction keeps what it took until it commits or rolls back. *)
(*                                                                         *)
(* A lock table is a function from transactions to sets of locks.          *)
(***************************************************************************)
Modes == {"for_update", "no_key_update", "key_share"}

ForUpdate(table, ids)   == {[row |-> <<table, i>>, mode |-> "for_update"] : i \in ids}
NoKeyUpdate(table, ids) == {[row |-> <<table, i>>, mode |-> "no_key_update"] : i \in ids}
KeyShare(table, ids)    == {[row |-> <<table, i>>, mode |-> "key_share"] : i \in ids}

Conflict(l, m) ==
  /\ l.row = m.row
  /\ \/ "for_update" \in {l.mode, m.mode}
     \/ l.mode = "no_key_update" /\ m.mode = "no_key_update"

\* The transactions other than t that stand in the way of t taking the locks
\* in wanted.
Holders(held, t, wanted) ==
  {d \in DOMAIN held \ {t} : \E l \in wanted, m \in held[d] : Conflict(l, m)}

\* Two transactions never hold conflicting locks.
Exclusive(held) ==
  \A c, d \in DOMAIN held :
    c # d => \A l \in held[c], m \in held[d] : ~ Conflict(l, m)

\* t waits for itself through the graph waitsFor: whatever set holds those t
\* waits for and is closed under waiting also holds t.
OnCycle(t, waitsFor) ==
  \A S \in SUBSET DOMAIN waitsFor :
    (waitsFor[t] \subseteq S /\ \A d \in S : waitsFor[d] \subseteq S) => t \in S
=============================================================================
