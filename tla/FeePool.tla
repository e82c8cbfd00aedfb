------------------------------- MODULE FeePool ------------------------------
(***************************************************************************)
(* What a mempool promises, without its indexes: a bounded set of          *)
(* transactions, at most one per sender and nonce, in which a newcomer to  *)
(* a full pool displaces one transaction that pays the least, and only by  *)
(* paying strictly more.                                                   *)
(***************************************************************************)
EXTENDS Naturals, FiniteSets

CONSTANTS Tx, Capacity

VARIABLE held       \* the transactions in the pool

SameSlot(t, u) == t.sender = u.sender /\ t.nonce = u.nonce

Init == held = {}

Admit(t) ==
    /\ \A u \in held : u.hash # t.hash /\ ~SameSlot(t, u)
    /\ Cardinality(held) < Capacity
    /\ held' = held \cup {t}

Displace(t, v) ==
    /\ \A u \in held : u.hash # t.hash /\ ~SameSlot(t, u)
    /\ Cardinality(held) = Capacity
    /\ v \in held
    /\ \A u \in held : v.fee <= u.fee
    /\ v.fee < t.fee
    /\ held' = (held \ {v}) \cup {t}

Drop == held' \in SUBSET held

Next ==
    \/ \E t \in Tx : Admit(t)
    \/ \E t \in Tx, v \in held : Displace(t, v)
    \/ Drop

Spec == Init /\ [][Next]_held
=============================================================================
